---- MODULE Spec2Model ----
(***************************************************************************)
(* A state-machine model of the execution core of the rc shell:            *)
(*   status.c  - the status vector, istrue/getstatus, -e exits             *)
(*   which.c   - rc_access, join, which, verify_cmd and the three hash     *)
(*               tables (functions, variables, path cache)                 *)
(*   exec.c    - the execution dispatcher exec()                           *)
(* C strings are sequences of one-character strings; a NULL pointer is the *)
(* value NULL, which is no C string.                                       *)
(***************************************************************************)
EXTENDS Integers, Sequences, FiniteSets, TLC

VARIABLES
    statuses,     \* status.c: int statuses[512], kept as its non-zero cells
    pipelength,   \* status.c: int pipelength
    dashee,       \* the -e flag
    dashpee,      \* the -p flag
    cond,         \* TRUE while a condition is being evaluated
    interactive,  \* the -i flag
    creds,        \* which.c: uid, gid and gidset of the process
    shell,        \* "running", "exited", "replaced" (execve), "aborted" or "hung"
    exitcode,     \* the code the process exited with, -1 while it runs
    errout,       \* what the last operation printed on fd 2
    rc_pid,       \* the owning-PID marker: "self" (getpid()), or "-1"
    fp,           \* which.c: the function table
    fsize,
    fused,
    vp,           \* which.c: the variable table
    vsize,
    vused,
    cp,           \* which.c: the path cache; p is the index of a word of $path
    csize,
    cused,
    env_dirty,    \* which.c: the environment vector is out of date
    env,          \* which.c: char **env, the strings in front of its first NULL
    bozosize,     \* which.c: the number of cells initenv filled with bozo strings
    maybeexport,  \* which.c: the names of maybeexport[] whose flag is TRUE
    pfree,        \* the words of $path that were handed to efree
    ub,           \* the undefined behaviour the process has gone through
    redirq,       \* the queue of redirections not yet applied
    fds,          \* the redirections in effect in the shell process
    cmdarg,       \* TRUE while command-argument fifos are outstanding
    nl_on_intr,   \* exec.c: print a newline when SIGINT is handled
    sigs,         \* "shell" handlers, or "default" after setsigdefaults
    fs,           \* the file system: path name -> [type, mode, uid, gid]
    slow,         \* system.c: volatile sig_atomic_t slow
    caught,       \* a signal was caught and waits for the next sigchk
    slowpc,       \* where control is in rc_read, rc_wait or writeall
    op            \* the last operation and what it was asked to do

\* the state of the shell process
procvars == <<statuses, pipelength, shell, exitcode, errout, rc_pid, fp, fsize, fused,
              vp, vsize, vused, cp, csize, cused, env_dirty, env, bozosize,
              maybeexport, pfree, ub, redirq, fds, cmdarg, nl_on_intr, sigs>>

\* the flags and the world around the process
envvars == <<dashee, dashpee, cond, interactive, creds, fs>>

\* the slow system calls
sysvars == <<slow, caught, slowpc>>

vars == <<procvars, envvars, sysvars, op>>

NULL == <<"NULL">>

\* F of the value of v, v evaluated once
Bind(v, F(_)) == CHOOSE r \in {F(x) : x \in {v}} : TRUE

(***************************************************************************)
(* Bounds of the model.                                                    *)
(***************************************************************************)
MaxPipe == 2

\* the deepest stack of values a variable is given
MaxDepth == 2

\* the most tombstones a table is left with
MaxDead == 1

\* how far below its starting value delete_cmd takes the counter fused
MaxDrift == 1

(***************************************************************************)
(* C strings.                                                              *)
(***************************************************************************)
Digits == <<"0", "1", "2", "3", "4", "5", "6", "7", "8", "9">>

IsDigit(c) == \E i \in 1..10 : Digits[i] = c

DigitVal(c) == (CHOOSE i \in 1..10 : Digits[i] = c) - 1

streq(s, t) == s = t

\* strncmp(s, t, n) == 0: the first n characters agree (or both end before)
strncmp0(s, t, n) ==
    \A i \in 1..n : (i <= Len(s) \/ i <= Len(t)) =>
                    (i <= Len(s) /\ i <= Len(t) /\ s[i] = t[i])

\* the string that starts at s + n, for n <= strlen(s)
StrFrom(s, n) == SubSeq(s, n + 1, Len(s))

RECURSIVE n2u(_, _)
n2u(s, acc) ==
    IF s = <<>> THEN acc
    ELSE IF ~IsDigit(Head(s)) THEN -1
    ELSE n2u(Tail(s), acc * 10 + DigitVal(Head(s)))

\* ascii -> unsigned; -1 when s is not a decimal number
a2u(s) == n2u(s, 0)

(***************************************************************************)
(* wait(2) status words: high byte = exit code, low 7 bits = terminating   *)
(* signal, bit 0x80 = core dumped.                                         *)
(***************************************************************************)
WTERMSIG(s) == s % 128

WIFEXITED(s) == WTERMSIG(s) = 0

WIFSIGNALED(s) == WTERMSIG(s) # 0 /\ WTERMSIG(s) # 127

WEXITSTATUS(s) == (s \div 256) % 256

myWIFDUMPED(s) == (s \div 128) % 2 = 1

STATUS0 == 0

STATUS1 == 256

SIGINT == 2

SIGPIPE == 13

\* sigmsgs: signals[k].name, k < NUMOFSIGNALS; signals[0] has the empty name
signals ==
    [k \in 0..15 |->
        CASE k = 0 -> <<>>
          [] k = 1 -> <<"s","i","g","h","u","p">>
          [] k = 2 -> <<"s","i","g","i","n","t">>
          [] k = 3 -> <<"s","i","g","q","u","i","t">>
          [] k = 4 -> <<"s","i","g","i","l","l">>
          [] k = 5 -> <<"s","i","g","t","r","a","p">>
          [] k = 6 -> <<"s","i","g","a","b","r","t">>
          [] k = 7 -> <<"s","i","g","b","u","s">>
          [] k = 8 -> <<"s","i","g","f","p","e">>
          [] k = 9 -> <<"s","i","g","k","i","l","l">>
          [] k = 10 -> <<"s","i","g","u","s","r","1">>
          [] k = 11 -> <<"s","i","g","s","e","g","v">>
          [] k = 12 -> <<"s","i","g","u","s","r","2">>
          [] k = 13 -> <<"s","i","g","p","i","p","e">>
          [] k = 14 -> <<"s","i","g","a","l","r","m">>
          [] OTHER -> <<"s","i","g","t","e","r","m">>]

NUMOFSIGNALS == 16

(***************************************************************************)
(* status.c.  The operations work on a record                              *)
(*   [a: the array, n: pipelength, out: fd 2, run: the process has not     *)
(*    exited, code: the exit code]                                         *)
(* so that an exit in the middle of an operation stops what follows it.    *)
(***************************************************************************)
NSTATUSES == 512

SIZEOF_INT == 4

\* sizeof(statuses): the size of the array in bytes
SizeofStatuses == NSTATUSES * SIZEOF_INT

\* statuses[i]; a cell never written holds 0 (static storage)
StatAt(a, i) == IF i \in DOMAIN a THEN a[i] ELSE 0

\* statuses[i] = v
StatPut(a, i, v) ==
    [k \in (DOMAIN a \ {i}) \cup (IF v = 0 THEN {} ELSE {i}) |->
        IF k = i THEN v ELSE a[k]]

\* a plausible slip: the loop bound one too far, reading a stale cell
istrue_stale(a, n) == \A i \in 0..n : StatAt(a, i) = 0

istrue(a, n) == \A i \in 0..(n - 1) : StatAt(a, i) = 0

getstatus(a, n) ==
    IF n > 1 THEN (IF istrue(a, n) THEN 0 ELSE 1)
    ELSE IF WIFSIGNALED(StatAt(a, 0)) THEN 1
    ELSE WEXITSTATUS(StatAt(a, 0))

\* rc_exit(stat): the process ends with the low byte of stat
rc_exit(st, stat) == [st EXCEPT !.run = FALSE, !.code = stat % 256]

\* A shell-level error (rc_raise/rc_error): control leaves the operation; it
\* returns to the command reader of an interactive shell that owns its pid,
\* and ends every other process with code 1.
rc_raise(st) ==
    IF interactive /\ st.rc_pid = "self" THEN [st EXCEPT !.raised = TRUE]
    ELSE [rc_exit(st, 1) EXCEPT !.raised = TRUE]

\* sigchk(): when a caught signal is pending its handler runs, which prints a
\* newline in an interactive shell while nl_on_intr is set, and raises
sigchk(st, pending) ==
    IF ~pending THEN st
    ELSE rc_raise(IF interactive /\ st.nl_on_intr
                  THEN [st EXCEPT !.out = Append(@, <<"newline">>)] ELSE st)

fprint(st, msg) == [st EXCEPT !.out = Append(@, msg)]

statprint_noexit(st, pid, i) ==
    LET t == IF WIFSIGNALED(i) THEN WTERMSIG(i) ELSE 0
        core == t > 0 /\ myWIFDUMPED(i)
    IN  IF (interactive /\ pid # -1) \/ (t > 0 /\ (core \/ (t # SIGINT /\ t # SIGPIPE)))
        THEN IF t = 0 THEN fprint(st, <<"done", WEXITSTATUS(i)>>)
             ELSE IF t > 0 /\ t < NUMOFSIGNALS /\ signals[t] # <<>>
                  THEN fprint(st, <<"signal", t, core>>)
             ELSE fprint(st, <<"unknown signal", t, core>>)
        ELSE st

statprint(st, pid, i) ==
    LET st1 == statprint_noexit(st, pid, i)
    IN  IF i # 0 /\ dashee /\ ~cond THEN rc_exit(st1, getstatus(st1.a, st1.n))
        ELSE st1

setstatus(st, pid, i) ==
    statprint([st EXCEPT !.n = 1, !.a = StatPut(@, 0, i)], pid, i)

set(st, code) == setstatus(st, -1, IF code THEN STATUS0 ELSE STATUS1)

\* the iterations lo..hi-1 of the loop of setpipestatus, split in halves
RECURSIVE setpipe_loop(_, _, _, _)
setpipe_loop(st, stats, lo, hi) ==
    IF ~st.run \/ lo >= hi THEN st
    ELSE IF hi = lo + 1
         THEN statprint([st EXCEPT !.a = StatPut(@, lo, stats[lo + 1])],
                        -1, stats[lo + 1])
    ELSE Bind(setpipe_loop(st, stats, lo, (lo + hi) \div 2), LAMBDA st1 :
              setpipe_loop(st1, stats, (lo + hi) \div 2, hi))

\* stats[0..num-1] is the sequence stats
setpipestatus(st, stats) ==
    setpipe_loop([st EXCEPT !.n = Len(stats)], stats, 0, Len(stats))

\* One argument of wait: w is what rc_wait4 does for it, [ret, stat, errno],
\* and whether a signal is pending at the sigchk() that follows.
\* x is [st, ret]: ret says that setwaitstatus has returned from its loop
setwait_body(x, av, w, i) ==
    LET st == x.st
        j == Len(av) - i - 1
        pid == a2u(av[i + 1])
        r == w[i + 1]
    IN  IF x.ret \/ ~st.run \/ st.raised THEN x
        ELSE IF pid < 0
             THEN [x EXCEPT !.st = [fprint(st, <<"bad number", av[i + 1]>>)
                                       EXCEPT !.a = StatPut(@, j, 256)]]
        ELSE IF r.ret > 0
             THEN [x EXCEPT !.st =
                      sigchk(statprint([st EXCEPT !.a = StatPut(@, j, r.stat)],
                                       pid, r.stat),
                             r.sig)]
        ELSE IF r.errno = "EINTR"
             THEN [st |-> set([st EXCEPT !.a = StatPut(@, j, 256)], FALSE),
                   ret |-> TRUE]
        ELSE [x EXCEPT !.st = sigchk([st EXCEPT !.a = StatPut(@, j, 256)], r.sig)]

\* the iterations lo..hi-1 of the loop, split in halves
RECURSIVE setwait_range(_, _, _, _, _)
setwait_range(x, av, w, lo, hi) ==
    IF lo >= hi THEN x
    ELSE IF hi = lo + 1 THEN setwait_body(x, av, w, lo)
    ELSE Bind(setwait_range(x, av, w, lo, (lo + hi) \div 2), LAMBDA x1 :
              setwait_range(x1, av, w, (lo + hi) \div 2, hi))

\* the loop from argument i on and the assignment of pipelength after it
setwait_loop(st, av, w, i) ==
    Bind(setwait_range([st |-> st, ret |-> FALSE], av, w, i, Len(av)), LAMBDA x :
        IF x.ret \/ ~x.st.run \/ x.st.raised THEN x.st
        ELSE [x.st EXCEPT !.n = Len(av)])

setwaitstatus(st, av, w, cmd) ==
    IF Len(av) >= SizeofStatuses
    THEN set(fprint(st, <<"too many arguments to", cmd>>), FALSE)
    ELSE setwait_loop(st, av, w, 0)

\* the first k at which ssetstatus finds the signal, as k or k + 0x80, or -1
RECURSIVE sigsearch(_, _)
sigsearch(s, k) ==
    IF k >= NUMOFSIGNALS THEN -1
    ELSE IF streq(signals[k], s) THEN k
    ELSE IF strncmp0(signals[k], s, Len(signals[k]))
            /\ Len(s) >= Len(signals[k])
            /\ streq(StrFrom(s, Len(signals[k])), <<"+","c","o","r","e">>)
         THEN k + 128
    ELSE sigsearch(s, k + 1)

\* the status word ssetstatus stores for one string
ssetword(s) ==
    LET j == a2u(s)
        k == sigsearch(s, 0)
    IN  IF j >= 0 THEN j * 256
        ELSE IF k >= 0 THEN k
        ELSE 256

\* wv[i + 1] is ssetword(av[i]); the iterations lo..hi-1, split in halves
RECURSIVE sset_loop(_, _, _, _)
sset_loop(st, wv, lo, hi) ==
    LET l == Len(wv) - 1
    IN  IF lo >= hi THEN st
        ELSE IF hi = lo + 1 THEN [st EXCEPT !.a = StatPut(@, l - lo, wv[lo + 1])]
        ELSE Bind(sset_loop(st, wv, lo, (lo + hi) \div 2), LAMBDA st1 :
                  sset_loop(st1, wv, (lo + hi) \div 2, hi))

ssetstatus(st, wv) ==
    Bind(sset_loop(st, wv, 0, Len(wv)), LAMBDA st1 : [st1 EXCEPT !.n = Len(wv)])


\* "%d" of a natural number
RECURSIVE u2a(_)
u2a(n) == IF n < 10 THEN <<Digits[n + 1]>> ELSE Append(u2a(n \div 10), Digits[(n % 10) + 1])

\* strstatus(s): the status as a string
strstatus(s) ==
    IF WIFSIGNALED(s)
    THEN LET t == WTERMSIG(s)
             core == IF myWIFDUMPED(s) THEN <<"+", "c", "o", "r", "e">> ELSE <<>>
         IN  IF t > 0 /\ t < NUMOFSIGNALS /\ signals[t] # <<>>
             THEN signals[t] \o core
             ELSE <<"-">> \o u2a(t) \o core
    ELSE u2a(WEXITSTATUS(s))

\* a plausible slip: the list is built in the order of the cells
sgetstatus_fwd(a, n) == [i \in 1..n |-> strstatus(StatAt(a, i - 1))]

\* sgetstatus(): the list of $status; each cell is put in front of the list,
\* so the last cell comes first
sgetstatus(a, n) == [i \in 1..n |-> strstatus(StatAt(a, n - i))]

(***************************************************************************)
(* which.c, hash tables.  A table is the function from its occupied slots  *)
(* to [name, dead, p]: a slot that is absent holds name == NULL, a slot    *)
(* with dead = TRUE holds the tombstone sentinel (the empty string `dead`).*)
(***************************************************************************)
HASHSIZE == 64

\* the printable characters, in ASCII order from the space (32)
Ascii ==
    <<" ", "!", "\"", "#", "$", "%", "&", "'", "(", ")", "*", "+", ",", "-", ".", "/",
      "0", "1", "2", "3", "4", "5", "6", "7", "8", "9", ":", ";", "<", "=", ">", "?",
      "@", "A", "B", "C", "D", "E", "F", "G", "H", "I", "J", "K", "L", "M", "N", "O",
      "P", "Q", "R", "S", "T", "U", "V", "W", "X", "Y", "Z", "[", "\\", "]", "^", "_",
      "backquote", "a", "b", "c", "d", "e", "f", "g", "h", "i", "j", "k", "l", "m", "n", "o",
      "p", "q", "r", "s", "t", "u", "v", "w", "x", "y", "z", "{", "|", "}", "~">>

Ord(c) == 31 + (CHOOSE i \in 1..Len(Ascii) : Ascii[i] = c)

\* bitwise operators of C on int, from those on the naturals
RECURSIVE XorN(_, _)
XorN(a, b) ==
    IF a = 0 THEN b
    ELSE IF b = 0 THEN a
    ELSE 2 * XorN(a \div 2, b \div 2) + (((a % 2) + (b % 2)) % 2)

RECURSIVE OrN(_, _)
OrN(a, b) ==
    IF a = 0 THEN b
    ELSE IF b = 0 THEN a
    ELSE 2 * OrN(a \div 2, b \div 2) + (IF (a % 2) = 1 \/ (b % 2) = 1 THEN 1 ELSE 0)

\* a & ~b on the naturals
RECURSIVE AndNotN(_, _)
AndNotN(a, b) ==
    IF a = 0 THEN 0
    ELSE 2 * AndNotN(a \div 2, b \div 2) + (IF (a % 2) = 1 /\ (b % 2) = 0 THEN 1 ELSE 0)

BitNot(a) == -a - 1

BitXor(a, b) ==
    IF a >= 0 /\ b >= 0 THEN XorN(a, b)
    ELSE IF a < 0 /\ b < 0 THEN XorN(BitNot(a), BitNot(b))
    ELSE IF a < 0 THEN BitNot(XorN(BitNot(a), b))
    ELSE BitNot(XorN(a, BitNot(b)))

BitOr(a, b) ==
    IF a >= 0 /\ b >= 0 THEN OrN(a, b)
    ELSE IF a < 0 /\ b < 0 THEN BitNot(AndNotN(BitNot(a), AndNotN(BitNot(a), BitNot(b))))
    ELSE IF a < 0 THEN BitNot(AndNotN(BitNot(a), b))
    ELSE BitNot(AndNotN(BitNot(b), a))

\* one round of the hash loop: the k-th ADV() of the four, on character code c
hashstep(n, c, k) ==
    CASE k = 0 -> n + BitXor(BitXor(c * 131072, c * 2048), BitXor(c * 32, c \div 2))
      [] k = 1 -> BitXor(n, c * 16384 + c * 128 + c * 16 + c)
      [] k = 2 -> BitXor(n, BitOr(BitNot(c) * 2048, BitXor(c * 8, c \div 2)))
      [] OTHER -> n - BitOr(BitOr(c * 65536, c * 512), BitOr(c * 4, (c % 4)))

RECURSIVE hashloop(_, _, _)
hashloop(s, n, k) ==
    IF s = <<>> THEN n
    ELSE hashloop(Tail(s), hashstep(n, Ord(Head(s)), k), (k + 1) % 4)

\* the hash of s before it is masked with size - 1
hashn(s) ==
    LET n == hashloop(s, 0, 0)
    IN  IF n < 0 THEN BitNot(n) ELSE n

\* the number of names a table holds before the operations on it begin
MaxFill == 31

\* the i-th of those names: aa .. az, ca ..
FillName(i) == IF i <= 26 THEN <<"a", Ascii[65 + i]>> ELSE <<"c", Ascii[39 + i]>>

\* the strings the model hashes, and their hashes computed once
path_name == <<"p", "a", "t", "h">>

Names ==
    {<<"q">>, <<"0">>, <<"s">>, <<"2">>, <<>>, path_name, <<"e", "x", "e", "c">>,
     <<"b", "u", "i", "l", "t", "i", "n">>, <<"e", "c", "h", "o">>,
     <<"n", "o", "e", "x", "p", "o", "r", "t">>, <<"v", "e", "r", "s", "i", "o", "n">>,
     <<"s", "i", "g", "i", "n", "t">>, <<"f">>, <<"b", "a">>}
    \cup {FillName(i) : i \in 1..(MaxFill + 1)}

HashTab == [s \in Names |-> hashn(s)]

\* n & (size - 1), size a power of two
hash(s, size) == (IF s \in Names THEN HashTab[s] ELSE hashn(s)) % size

\* ht[h].name == NULL
SlotNull(ht, h) == h \notin DOMAIN ht

\* ht[h].name == dead
SlotDead(ht, h) == h \in DOMAIN ht /\ ht[h].dead

\* the characters of ht[h].name, for a slot that is not NULL
SlotName(ht, h) == IF ht[h].dead THEN <<>> ELSE ht[h].name

Live(ht) == {h \in DOMAIN ht : ~ht[h].dead}

\* ht[h] = [name, p]
SlotPut(ht, h, name, p) ==
    [k \in DOMAIN ht \cup {h} |->
        IF k = h THEN [name |-> name, dead |-> FALSE, p |-> p] ELSE ht[k]]

\* ht[h].p = p, which nothing reads while ht[h].name is NULL
SlotSetP(ht, h, p) == IF h \in DOMAIN ht THEN [ht EXCEPT ![h].p = p] ELSE ht

\* ht[h].name = NULL
SlotClear(ht, h) == [k \in DOMAIN ht \ {h} |-> ht[k]]

\* ht[h].name = dead, ht[h].p left as p
SlotKill(ht, h, p) == [ht EXCEPT ![h] = [name |-> <<>>, dead |-> TRUE, p |-> p]]

\* The probe loop of find from slot h; -1 when it has gone round the whole
\* table without finding NULL or s, where the C loop does not end.
RECURSIVE find_from(_, _, _, _, _)
find_from(s, ht, size, h, steps) ==
    IF steps >= size THEN -1
    ELSE IF SlotNull(ht, h) \/ streq(SlotName(ht, h), s) THEN h
    ELSE find_from(s, ht, size, (h + 1) % size, steps + 1)

find(s, ht, size) == find_from(s, ht, size, hash(s, size), 0)

\* lookup(s, ht) for a table of the given size
lookup(s, ht, size) ==
    LET h == find(s, ht, size)
    IN  IF h = -1 THEN NULL ELSE IF SlotNull(ht, h) THEN NULL ELSE ht[h].p

\* the first NULL slot of newhtab from j on (it is never full)
RECURSIVE probe_null(_, _, _)
probe_null(newhtab, newsize, j) ==
    IF SlotNull(newhtab, j) THEN j ELSE probe_null(newhtab, newsize, (j + 1) % newsize)

\* one turn of the reinsertion loop of rehash: old slot i, into newhtab
rehash_slot(ht, i, newhtab, newsize) ==
    IF i \in Live(ht)
    THEN SlotPut(newhtab, probe_null(newhtab, newsize, hash(ht[i].name, newsize)),
                 ht[i].name, ht[i].p)
    ELSE newhtab

\* the reinsertion loop of rehash over the old slots i .. size - 1, in that
\* order, into newhtab
RECURSIVE rehash_loop(_, _, _, _, _)
rehash_loop(ht, size, i, newhtab, newsize) ==
    IF i >= size THEN newhtab
    ELSE IF size - i = 1 THEN rehash_slot(ht, i, newhtab, newsize)
    ELSE Bind(rehash_loop(ht, i + (size - i) \div 2, i, newhtab, newsize),
              LAMBDA nh : rehash_loop(ht, size, i + (size - i) \div 2, nh, newsize))

\* a plausible slip: the table is doubled only when more than half is used
rehash_gt(ht, size, used) ==
    IF size >= 2 * used THEN [did |-> FALSE, ht |-> ht, size |-> size, used |-> used]
    ELSE [did |-> TRUE, ht |-> rehash_loop(ht, size, 0, <<>>, 2 * size),
          size |-> 2 * size, used |-> Cardinality(Live(ht))]

\* rehash(ht): [did, ht, size, used]
rehash(ht, size, used) ==
    IF size > 2 * used THEN [did |-> FALSE, ht |-> ht, size |-> size, used |-> used]
    ELSE [did |-> TRUE, ht |-> rehash_loop(ht, size, 0, <<>>, 2 * size),
          size |-> 2 * size, used |-> Cardinality(Live(ht))]

\* the process never leaves a probe loop that finds no NULL slot
hang(st) == [st EXCEPT !.run = FALSE, !.how = "hung"]

\* undefined behaviour that ends the process (a NULL dereference, an abort of
\* the allocator)
crash(st, what) == [st EXCEPT !.run = FALSE, !.how = "aborted", !.ub = @ \cup {what}]

\* undefined behaviour the process survives
undefined(st, what) == [st EXCEPT !.ub = @ \cup {what}]

\* efree of a block that is not the caller's to free, or not a block at all:
\* the allocator aborts the process or goes on
badfree(st, what) == IF st.u.abort THEN crash(st, what) ELSE undefined(st, what)

fnfind(st, s) == find(s, st.fp, st.fsize)

varfind(st, s) == find(s, st.vp, st.vsize)

cmdfind(st, s) == find(s, st.cp, st.csize)

lookup_fn(st, s) == lookup(s, st.fp, st.fsize)

lookup_var(st, s) == lookup(s, st.vp, st.vsize)

lookup_cmd(st, s) == lookup(s, st.cp, st.csize)

\* get_fn_place(s) and the caller's store of the definition f through it
get_fn_place(st, s, f) ==
    LET h == fnfind(st, s)
        r == rehash(st.fp, st.fsize, st.fused)
        h2 == IF r.did THEN find(s, r.ht, r.size) ELSE h
    IN  IF h = -1 THEN hang(st)
        ELSE IF SlotNull(st.fp, h)
             THEN [st EXCEPT !.env_dirty = TRUE, !.fsize = r.size,
                             !.fused = r.used + 1, !.fp = SlotPut(r.ht, h2, s, f)]
        ELSE IF SlotDead(st.fp, h)   \* free_fn of the function delete_fn freed
             THEN undefined([st EXCEPT !.env_dirty = TRUE, !.fp = SlotSetP(@, h, f)],
                            "free_fn of a freed function")
        ELSE [st EXCEPT !.env_dirty = TRUE, !.fp = SlotSetP(@, h, f)]

\* listfree(v->def) of the top of s: of $path, words that delete_cmd freed are
\* freed again
listfree_def(st, s) ==
    IF s = path_name /\ st.pfree # {}
    THEN [badfree(st, "invalid free") EXCEPT !.pfree = {}]
    ELSE st

\* get_var_place(s, stack) and the caller's store of the value def through it;
\* a variable is the sequence of the values of its entries, the top of the
\* stack first
get_var_place(st, s, stack, def) ==
    LET h == varfind(st, s)
        r == rehash(st.vp, st.vsize, st.vused)
        h2 == IF r.did THEN find(s, r.ht, r.size) ELSE h
    IN  IF h = -1 THEN hang(st)
        ELSE IF SlotNull(st.vp, h)
             THEN [st EXCEPT !.env_dirty = TRUE, !.vsize = r.size,
                             !.vused = r.used + 1,
                             !.vp = SlotPut(r.ht, h2, s, <<def>>)]
        ELSE IF stack
             THEN [st EXCEPT !.env_dirty = TRUE,
                             !.vp = SlotSetP(@, h, <<def>> \o
                                        (IF st.vp[h].p = NULL THEN <<>> ELSE st.vp[h].p))]
        ELSE IF st.vp[h].p = NULL    \* new = vp[h].p is NULL in a tombstone
             THEN crash([st EXCEPT !.env_dirty = TRUE], "NULL Variable")
        ELSE IF ~listfree_def(st, s).run THEN listfree_def(st, s)
        ELSE [listfree_def(st, s) EXCEPT !.env_dirty = TRUE,
                        !.vp = SlotSetP(@, h, <<def>> \o Tail(st.vp[h].p))]

delete_fn(st, s) ==
    LET h == fnfind(st, s)
    IN  IF h = -1 THEN hang(st)
        ELSE IF SlotNull(st.fp, h) THEN st
        ELSE IF SlotDead(st.fp, h)   \* the function and the sentinel are freed
             THEN crash([st EXCEPT !.env_dirty = TRUE], "efree(dead)")
        ELSE IF SlotNull(st.fp, (h + 1) % st.fsize)
             THEN [st EXCEPT !.env_dirty = TRUE, !.fused = @ - 1,
                             !.fp = SlotClear(@, h)]
        ELSE [st EXCEPT !.env_dirty = TRUE, !.fp = SlotKill(@, h, st.fp[h].p)]

\* v->def = NULL: the empty list
EmptyList == "()"

\* a plausible slip: the top is popped whether or not the caller asked for it
delete_var_pop(st, s, stack) ==
    LET h == varfind(st, s)
        v == st.vp[h].p
        sf == listfree_def(st, s)
    IN  IF h = -1 THEN hang(st)
        ELSE IF SlotNull(st.vp, h) THEN st
        ELSE IF v = NULL
             THEN crash([st EXCEPT !.env_dirty = TRUE], "NULL Variable")
        ELSE IF ~sf.run THEN sf
        ELSE IF Len(v) > 1
             THEN [sf EXCEPT !.env_dirty = TRUE, !.vp = SlotSetP(@, h, Tail(v))]
        ELSE IF SlotNull(st.vp, (h + 1) % st.vsize)
             THEN [sf EXCEPT !.env_dirty = TRUE, !.vused = @ - 1,
                             !.vp = SlotClear(@, h)]
        ELSE [sf EXCEPT !.env_dirty = TRUE, !.vp = SlotKill(@, h, NULL)]

delete_var(st, s, stack) ==
    LET h == varfind(st, s)
        v == st.vp[h].p
        sf == listfree_def(st, s)
    IN  IF h = -1 THEN hang(st)
        ELSE IF SlotNull(st.vp, h) THEN st
        ELSE IF v = NULL             \* v = vp[h].p is NULL in a tombstone
             THEN crash([st EXCEPT !.env_dirty = TRUE], "NULL Variable")
        ELSE IF ~sf.run THEN sf
        ELSE IF Len(v) > 1
             THEN IF stack
                  THEN [sf EXCEPT !.env_dirty = TRUE, !.vp = SlotSetP(@, h, Tail(v))]
                  ELSE [sf EXCEPT !.env_dirty = TRUE,
                                  !.vp = SlotSetP(@, h, <<EmptyList>> \o Tail(v))]
        ELSE IF SlotNull(st.vp, (h + 1) % st.vsize)
             THEN [sf EXCEPT !.env_dirty = TRUE, !.vused = @ - 1,
                             !.vp = SlotClear(@, h)]
        ELSE [sf EXCEPT !.env_dirty = TRUE, !.vp = SlotKill(@, h, NULL)]

\* fp[h].name == NULL where h is a slot of cp: past the end of fp the read is
\* undefined and finds NULL or not
fp_name_null(st, h) == IF h < st.fsize THEN SlotNull(st.fp, h) ELSE ~st.u.garbage

set_cmd_path(st, cmd, path) ==
    LET h == cmdfind(st, cmd)
        r == rehash(st.cp, st.csize, st.cused)
        h2 == IF r.did THEN find(cmd, r.ht, r.size) ELSE h
        st1 == IF h >= st.fsize THEN undefined(st, "wild read") ELSE st
    IN  IF h = -1 THEN hang(st)
        ELSE IF fp_name_null(st, h)
             THEN [st1 EXCEPT !.csize = r.size, !.cused = r.used + 1,
                              !.cp = SlotPut(r.ht, h2, cmd, path)]
        ELSE [st1 EXCEPT !.cp = SlotSetP(@, h, path)]

\* efree(cp[h].p): the block is the word path of $path, which the list of
\* $path still holds
efree_word(st, path) ==
    IF path \in st.pfree THEN badfree(st, "invalid free")
    ELSE [st EXCEPT !.pfree = @ \cup {path}]

delete_cmd(st, s) ==
    LET h == cmdfind(st, s)
        st1 == efree_word(st, st.cp[h].p)
    IN  IF h = -1 THEN hang(st)
        ELSE IF SlotNull(st.cp, h) THEN st
        ELSE IF ~st1.run THEN st1
        ELSE IF SlotNull(st.cp, (h + 1) % st.csize)
             THEN [st1 EXCEPT !.fused = @ - 1, !.cp = SlotClear(@, h)]
        ELSE [st1 EXCEPT !.cp = SlotKill(@, h, st.cp[h].p)]

\* a plausible slip: the early return tests the counter delete_cmd decrements
reset_cmdtab_fused(st) ==
    IF st.fused = 0 THEN st
    ELSE [st EXCEPT !.cp = <<>>, !.cused = 0]

\* every name is freed, the tombstone sentinel (a string literal) included
reset_cmdtab(st) ==
    IF st.cused = 0 THEN st
    ELSE LET st1 == IF \E h \in DOMAIN st.cp : st.cp[h].dead
                    THEN badfree(st, "invalid free") ELSE st
         IN  IF ~st1.run THEN st1
             ELSE [st1 EXCEPT !.cp = <<>>, !.cused = 0]

(***************************************************************************)
(* which.c: the executability probe and the path search.  A file is        *)
(* [type, mode, uid, gid]; fs maps the path names that stat() finds to     *)
(* their files.                                                            *)
(***************************************************************************)
X_USR == 64

X_GRP == 8

X_OTH == 1

X_ALL == X_USR + X_GRP + X_OTH

\* a & b on the naturals
RECURSIVE AndN(_, _)
AndN(a, b) ==
    IF a = 0 \/ b = 0 THEN 0
    ELSE 2 * AndN(a \div 2, b \div 2) + (IF (a % 2) = 1 /\ (b % 2) = 1 THEN 1 ELSE 0)

\* geteuid(), getegid() and getgroups() of the process, which which() reads
\* once into uid, gid and gidset
\* the credentials of an ordinary user with one supplementary group
Creds == [uid |-> 1000, gid |-> 100, gidset |-> {100, 27}]


\* a plausible slip: only the primary group is compared
ingidset_primary(g) == g = creds.gid

ingidset(g) == g \in creds.gidset

\* the mask rc_access selects for the file f
access_mask(f) ==
    IF creds.uid = 0 THEN X_ALL
    ELSE IF creds.uid = f.uid THEN X_USR
    ELSE IF creds.gid = f.gid \/ ingidset(f.gid) THEN X_GRP
    ELSE X_OTH

\* the value of rc_access(path, verbose, &st)
access_ok(path) ==
    /\ path \in DOMAIN fs
    /\ fs[path].type = "reg"
    /\ AndN(fs[path].mode, access_mask(fs[path])) # 0

\* rc_access: [ok, st], st with what uerror printed
rc_access(st, path, verbose) ==
    [ok |-> access_ok(path),
     st |-> IF ~access_ok(path) /\ verbose THEN fprint(st, <<"uerror", path>>) ELSE st]

join(path, cmd) ==
    IF path = <<>> THEN cmd
    ELSE IF path[Len(path)] = "/" THEN path \o cmd
    ELSE path \o <<"/">> \o cmd

\* a name that starts with /, ./ or ../
isabsolute(x) ==
    \/ (Len(x) >= 1 /\ x[1] = "/")
    \/ (Len(x) >= 2 /\ x[1] = "." /\ x[2] = "/")
    \/ (Len(x) >= 3 /\ x[1] = "." /\ x[2] = "." /\ x[3] = "/")

\* the value of $path: ('' /b)
PathList == << <<>>, <<"/", "b">> >>

\* path->w of the i-th word of $path
WordPtr(i) == <<"path->w", ToString(i)>>

WordIndex(p) == CHOOSE i \in 1..Len(PathList) : WordPtr(i) = p

\* what a freed block reads as when it has been reused
Garbage == <<"?">>

\* the string at the pointer p to a word of $path; a word that was freed
\* reads as it was or as garbage
word_at(st, p) ==
    IF p \in st.pfree /\ st.u.garbage THEN Garbage ELSE PathList[WordIndex(p)]

\* reading through p is a use after free when the word was freed
word_read(st, p) == IF p \in st.pfree THEN undefined(st, "wild read") ELSE st

\* varlookup("path"): the pointers to the words of $path, none when path is
\* not set
varlookup_path(st) ==
    IF lookup_var(st, path_name) = NULL THEN <<>>
    ELSE [i \in 1..Len(PathList) |-> WordPtr(i)]


\* a plausible slip: the words of $path are tried from the last to the first
RECURSIVE which_loop_rev(_, _, _, _, _)
which_loop_rev(st, name, path, i, probes) ==
    IF i > Len(path)
    THEN [st |-> st, ret |-> NULL, probes |-> probes, dir |-> NULL]
    ELSE Bind(path[Len(path) + 1 - i], LAMBDA w :
         Bind(join(word_at(st, w), name), LAMBDA full :
             IF access_ok(full)
             THEN [st |-> set_cmd_path(st, name, w), ret |-> full,
                   probes |-> Append(probes, full), dir |-> w]
             ELSE which_loop_rev(st, name, path, i + 1, Append(probes, full))))

\* the loop of which() over the words of $path from the i-th on;
\* probes are the names handed to rc_access so far
RECURSIVE which_loop(_, _, _, _, _)
which_loop(st, name, path, i, probes) ==
    IF i > Len(path)
    THEN [st |-> st, ret |-> NULL, probes |-> probes, dir |-> NULL]
    ELSE Bind(join(word_at(st, path[i]), name), LAMBDA full :
         Bind(word_read(st, path[i]), LAMBDA st1 :
             IF access_ok(full)
             THEN [st |-> set_cmd_path(st1, name, path[i]), ret |-> full,
                   probes |-> Append(probes, full), dir |-> path[i]]
             ELSE which_loop(st1, name, path, i + 1, Append(probes, full))))

\* which(name, verbose): [st, ret, probes, dir]; dir is the word of $path a
\* search ended at
which(st, name, verbose) ==
    IF name = NULL
    THEN [st |-> st, ret |-> NULL, probes |-> <<>>, dir |-> NULL]
    ELSE IF isabsolute(name)
         THEN [st |-> rc_access(st, name, verbose).st,
               ret |-> IF access_ok(name) THEN name ELSE NULL,
               probes |-> <<name>>, dir |-> NULL]
    ELSE Bind(lookup_cmd(st, name), LAMBDA cached :
         IF cached # NULL
         THEN [st |-> word_read(st, cached), ret |-> join(word_at(st, cached), name),
               probes |-> <<>>, dir |-> NULL]
         ELSE Bind(which_loop(st, name, varlookup_path(st), 1, <<>>), LAMBDA r :
              IF r.ret = NULL /\ verbose
              THEN [r EXCEPT !.st = fprint(@, <<"cannot find", name>>)]
              ELSE r))

\* strrchr(fullpath, '/') + 1: what follows the last slash, NULL without one
RECURSIVE after_slash(_)
after_slash(fullpath) ==
    IF fullpath = <<>> THEN NULL
    ELSE IF fullpath[Len(fullpath)] = "/" THEN <<>>
    ELSE LET r == after_slash(SubSeq(fullpath, 1, Len(fullpath) - 1))
         IN  IF r = NULL THEN NULL ELSE Append(r, fullpath[Len(fullpath)])

verify_cmd(st, fullpath) ==
    IF access_ok(fullpath) THEN st
    ELSE Bind(after_slash(fullpath), LAMBDA cmd :
         IF cmd # NULL /\ cmd # <<>> THEN delete_cmd(st, cmd) ELSE st)

(***************************************************************************)
(* which.c: the exported environment.  A value of a variable is a list of  *)
(* at most one word, and the word is one character: the value "A" is the   *)
(* list (A), EmptyList is ().  A function definition is the text of its    *)
(* body.                                                                   *)
(***************************************************************************)
\* the index of the first c in s, 0 when there is none (strchr)
RECURSIVE strchr_from(_, _, _)
strchr_from(s, c, i) ==
    IF i > Len(s) THEN 0
    ELSE IF s[i] = c THEN i
    ELSE strchr_from(s, c, i + 1)

strchr(s, c) == strchr_from(s, c, 1)

\* strcmp(s, t): -1, 0 or 1
RECURSIVE strcmp(_, _)
strcmp(s, t) ==
    IF s = <<>> /\ t = <<>> THEN 0
    ELSE IF s = <<>> THEN -1
    ELSE IF t = <<>> THEN 1
    ELSE IF Head(s) = Head(t) THEN strcmp(Tail(s), Tail(t))
    ELSE IF Ord(Head(s)) < Ord(Head(t)) THEN -1 ELSE 1

\* the comparison makeenv hands to qsort
starstrcmp(s, t) == strcmp(s, t)

\* x put into the sorted sequence v
RECURSIVE sort_in(_, _)
sort_in(v, x) ==
    IF v = <<>> THEN <<x>>
    ELSE IF starstrcmp(x, Head(v)) <= 0 THEN <<x>> \o v
    ELSE <<Head(v)>> \o sort_in(Tail(v), x)

\* qsort(v, Len(v), sizeof(char *), starstrcmp): equal strings are the same
\* characters, so the sorted vector is one sequence
RECURSIVE qsort(_)
qsort(v) == IF v = <<>> THEN <<>> ELSE sort_in(qsort(Tail(v)), Head(v))

\* the list of words of a value
words(def) == IF def = EmptyList THEN <<>> ELSE << <<def>> >>

\* varlookup(name): the list that is the value of the variable, () when it
\* has none
varlookup(st, name) ==
    Bind(lookup_var(st, name), LAMBDA v :
        IF v = NULL THEN <<>> ELSE words(Head(v)))

\* varlookup_string(name): "name=value", NULL for no variable and for ()
varlookup_string(st, name) ==
    Bind(lookup_var(st, name), LAMBDA v :
        IF v = NULL THEN NULL
        ELSE IF Head(v) = EmptyList THEN NULL
        ELSE name \o <<"=", Head(v)>>)

fn_prefix == <<"f", "n", "_">>

\* fnlookup_string(name): "fn_name={body}"
fnlookup_string(st, name) ==
    Bind(lookup_fn(st, name), LAMBDA f :
        IF f = NULL THEN NULL
        ELSE fn_prefix \o name \o <<"=", "{">> \o f \o <<"}">>)

prompt_name == <<"p", "r", "o", "m", "p", "t">>

version_name == <<"v", "e", "r", "s", "i", "o", "n">>

noexport_name == <<"n", "o", "e", "x", "p", "o", "r", "t">>

sigexit_name == <<"s", "i", "g", "e", "x", "i", "t">>

\* the names of maybeexport[]
MaybeExport == {prompt_name, version_name}

set_exportable(st, s, b) ==
    IF s \in MaybeExport
    THEN [st EXCEPT !.maybeexport = IF b THEN @ \cup {s} ELSE @ \ {s}]
    ELSE st

var_exportable(st, s) ==
    IF s \in MaybeExport /\ s \notin st.maybeexport THEN FALSE
    ELSE Bind(varlookup(st, noexport_name), LAMBDA noex :
         ~\E k \in 1..Len(noex) : streq(s, noex[k]))

fn_exportable(s) ==
    IF strncmp0(s, <<"s", "i", "g">>, 3)
    THEN ~((\E i \in DOMAIN signals : streq(s, signals[i])) \/ streq(s, sigexit_name))
    ELSE TRUE

\* one round of the first loop of makeenv: cell i of vp
env_vars(st, i, acc) ==
    IF i \in Live(st.vp) /\ var_exportable(st, st.vp[i].name)
    THEN Bind(varlookup_string(st, st.vp[i].name), LAMBDA v :
         IF v # NULL THEN Append(acc, v) ELSE acc)
    ELSE acc

\* one round of the second loop of makeenv: cell i of fp
env_fns(st, i, acc) ==
    IF i \in Live(st.fp) /\ fn_exportable(st.fp[i].name)
    THEN Append(acc, fnlookup_string(st, st.fp[i].name))
    ELSE acc

\* F(i, acc) for the occupied cells i of ht in rising order, from acc
RECURSIVE slot_loop(_, _, _)
slot_loop(cells, F(_, _), acc) ==
    IF cells = {} THEN acc
    ELSE Bind(CHOOSE i \in cells : \A j \in cells : i <= j, LAMBDA i :
         slot_loop(cells \ {i}, F, F(i, acc)))

\* the export strings the tables hold now
table_strings(st) ==
    {varlookup_string(st, st.vp[i].name) : i \in Live(st.vp)}
        \cup {fnlookup_string(st, st.fp[i].name) : i \in Live(st.fp)}

\* The cells of kept whose string belonged to a table that holds it no more:
\* the table freed the string when the name was assigned or deleted.
stale(st, kept) ==
    {k \in 1..Len(kept) : /\ strchr(kept[k], "=") # 0
                          /\ kept[k] \notin table_strings(st)}

\* what a read of a freed string finds: its old characters, or others
freed_read(st, s) == IF st.u.garbage THEN <<"?">> ELSE s

\* makeenv(): when a table changed since the vector was built, the cells
\* from bozosize on are refilled from the live names of vp and fp, and the
\* whole vector is sorted; the cells below bozosize keep what the last sort
\* left in them.  (envsize only says when the array is reallocated, which
\* keeps its cells.)
makeenv(st) ==
    IF ~st.env_dirty THEN st
    ELSE Bind(slot_loop(DOMAIN st.vp, LAMBDA i, acc : env_vars(st, i, acc), <<>>),
         LAMBDA e1 :
         Bind(slot_loop(DOMAIN st.fp, LAMBDA i, acc : env_fns(st, i, acc), e1),
         LAMBDA fresh :
         Bind(SubSeq(st.env, 1, st.bozosize), LAMBDA kept :
         Bind([k \in 1..Len(kept) |->
                  IF k \in stale(st, kept) THEN freed_read(st, kept[k])
                  ELSE kept[k]],
         LAMBDA cells :
             [(IF stale(st, kept) # {} THEN undefined(st, "freed environment string")
               ELSE st)
              EXCEPT !.env_dirty = FALSE, !.env = qsort(cells \o fresh)]))))

\* the value an inherited "name=value" gives the variable
def_of(v) == IF v = <<>> THEN EmptyList ELSE v[1]

\* varassign_string(extdef): FALSE for a string that is not name=value, else
\* the variable is assigned as by a non-stacking assignment
varassign_string(st, extdef) ==
    Bind(strchr(extdef, "="), LAMBDA k :
        IF k = 0 THEN [ok |-> FALSE, st |-> st]
        ELSE [ok |-> TRUE,
              st |-> get_var_place(st, SubSeq(extdef, 1, k - 1), FALSE,
                                   def_of(StrFrom(extdef, k)))])

\* fnassign_string(extdef): "fn_name={body}" defines the function name
fnassign_string(st, extdef) ==
    Bind(strchr(extdef, "="), LAMBDA k :
        IF k = 0 THEN st
        ELSE get_fn_place(st, SubSeq(extdef, Len(fn_prefix) + 1, k - 1),
                          SubSeq(extdef, k + 2, Len(extdef) - 1)))

\* env[bozosize++] = *envp
add_bozo(st, s) == [st EXCEPT !.env = Append(@, s), !.bozosize = @ + 1]

\* a plausible slip: with -p an entry that starts with fn_ goes the way of
\* the other entries
RECURSIVE initenv_asvar(_, _)
initenv_asvar(st, envp) ==
    IF envp = <<>> \/ ~st.run THEN st
    ELSE IF strncmp0(Head(envp), fn_prefix, Len(fn_prefix)) /\ ~dashpee
         THEN initenv_asvar(fnassign_string(st, Head(envp)), Tail(envp))
    ELSE Bind(varassign_string(st, Head(envp)), LAMBDA r :
         initenv_asvar(IF r.ok THEN r.st ELSE add_bozo(st, Head(envp)), Tail(envp)))

\* initenv(envp): the loop over the inherited strings
RECURSIVE initenv(_, _)
initenv(st, envp) ==
    IF envp = <<>> \/ ~st.run THEN st
    ELSE IF strncmp0(Head(envp), fn_prefix, Len(fn_prefix))
         THEN initenv(IF ~dashpee THEN fnassign_string(st, Head(envp)) ELSE st,
                      Tail(envp))
    ELSE Bind(varassign_string(st, Head(envp)), LAMBDA r :
         initenv(IF r.ok THEN r.st ELSE add_bozo(st, Head(envp)), Tail(envp)))

(***************************************************************************)
(* exec.c: the execution dispatcher.  av is the sequence of the words of   *)
(* the command, *av == NULL being av = <<>>; a builtin_t is the name of    *)
(* the function in a one-element sequence.                                 *)
(***************************************************************************)
b_exec == <<"b_exec">>

b_builtin == <<"b_builtin">>

b_echo == <<"b_echo">>

funcall == <<"funcall">>

exec_word == <<"e", "x", "e", "c">>

builtin_word == <<"b", "u", "i", "l", "t", "i", "n">>

echo_word == <<"e", "c", "h", "o">>

\* isbuiltin(s): the builtin of that name, of the three the model has
isbuiltin(s) ==
    IF s = exec_word THEN b_exec
    ELSE IF s = builtin_word THEN b_builtin
    ELSE IF s = echo_word THEN b_echo
    ELSE NULL

\* doredirs(): the queued redirections take effect in this process
doredirs(st) ==
    [st EXCEPT !.fds = @ \cup {st.redirq[k] : k \in 1..Len(st.redirq)},
               !.redirq = <<>>]

outstanding_cmdarg(st) == st.cmdarg

pop_cmdarg(st, remove) == [st EXCEPT !.cmdarg = FALSE]

setsigdefaults(st, sysvhack) == [st EXCEPT !.sigs = "default"]

\* a plausible slip: builtin does not stack, a second builtin is no builtin
resolve_nostack(st, av, saw_builtin) ==
    IF av = <<>> THEN NULL
    ELSE IF isabsolute(av[1]) THEN NULL
    ELSE IF ~saw_builtin /\ lookup_fn(st, av[1]) # NULL THEN funcall
    ELSE IF saw_builtin /\ isbuiltin(av[1]) = b_builtin THEN NULL
    ELSE isbuiltin(av[1])

\* one resolution of the prefix loop
resolve(st, av, saw_builtin) ==
    IF av = <<>> THEN NULL
    ELSE IF isabsolute(av[1]) THEN NULL
    ELSE IF ~saw_builtin /\ lookup_fn(st, av[1]) # NULL THEN funcall
    ELSE isbuiltin(av[1])

\* what the prefix loop records of one resolution
Resolution(av, saw_builtin, b) ==
    [word |-> IF av = <<>> THEN NULL ELSE av[1], saw_builtin |-> saw_builtin, b |-> b]

\* a plausible slip: saw_builtin is cleared only when builtin is seen again
RECURSIVE prefix_loop_sticky(_, _, _, _, _, _)
prefix_loop_sticky(st, av, saw_builtin, saw_exec, parent, trace) ==
    LET b == resolve(st, av, saw_builtin)
        t == Append(trace, Resolution(av, saw_builtin, b))
    IN  IF b = b_exec THEN prefix_loop_sticky(st, Tail(av), saw_builtin, TRUE, FALSE, t)
        ELSE IF b = b_builtin
             THEN prefix_loop_sticky(st, Tail(av), TRUE, saw_exec, parent, t)
        ELSE [av |-> av, b |-> b, saw_exec |-> saw_exec, parent |-> parent,
              trace |-> t]

\* the do-while loop of exec: [av, b, saw_exec, parent] as it leaves them and
\* the trace of its resolutions
RECURSIVE prefix_loop(_, _, _, _, _, _)
prefix_loop(st, av, saw_builtin, saw_exec, parent, trace) ==
    LET b == resolve(st, av, saw_builtin)
        t == Append(trace, Resolution(av, saw_builtin, b))
    IN  IF b = b_exec THEN prefix_loop(st, Tail(av), FALSE, TRUE, FALSE, t)
        ELSE IF b = b_builtin THEN prefix_loop(st, Tail(av), TRUE, saw_exec, parent, t)
        ELSE [av |-> av, b |-> b, saw_exec |-> saw_exec, parent |-> parent,
              trace |-> t]

\* a plausible slip: outstanding fifos are not looked at
forks_nofifo(st, parent, b) == parent /\ (b = NULL \/ st.redirq # <<>>)

\* a plausible slip: && where || is meant
forks_and(st, parent, b) ==
    (parent /\ (b = NULL /\ st.redirq # <<>>)) \/ outstanding_cmdarg(st)

\* the condition under which exec forks
forks(st, parent, b) ==
    (parent /\ (b = NULL \/ st.redirq # <<>>)) \/ outstanding_cmdarg(st)

\* execve(path, av, ev) replaces the process when path is a file the process
\* may execute
execve_ok(path) == access_ok(path)

\* a plausible slip: the dispositions are reset whether or not exec returns
case_0_reset(st, r, path, in, returning) ==
    Bind(setsigdefaults(st, FALSE), LAMBDA st1 :
    Bind(doredirs(pop_cmdarg(st1, FALSE)), LAMBDA st2 :
        IF r.av = <<>> \/ r.b # NULL
        THEN Bind(IF r.b # NULL THEN set(st2, in.bok) ELSE st2, LAMBDA st3 :
                 IF ~st3.run \/ returning THEN st3
                 ELSE rc_exit(st3, getstatus(st3.a, st3.n)))
        ELSE IF execve_ok(path) THEN [st2 EXCEPT !.run = FALSE, !.how = "replaced"]
        ELSE rc_exit(fprint(st2, <<"uerror", r.av[1]>>), 1)))

\* case 0 of the switch, in the process st: the child of a fork, or the
\* calling process itself.  in.bok is the status the builtin or function sets.
case_0(st, r, path, in, returning) ==
    Bind(IF ~returning THEN setsigdefaults(st, FALSE) ELSE st, LAMBDA st1 :
    Bind(doredirs(pop_cmdarg(st1, FALSE)), LAMBDA st2 :
        IF r.av = <<>> \/ r.b # NULL
        THEN Bind(IF r.b # NULL THEN set(st2, in.bok) ELSE st2, LAMBDA st3 :
                 IF ~st3.run \/ returning THEN st3
                 ELSE rc_exit(st3, getstatus(st3.a, st3.n)))
        ELSE IF execve_ok(path) THEN [st2 EXCEPT !.run = FALSE, !.how = "replaced"]
        ELSE rc_exit(fprint(st2, <<"uerror", r.av[1]>>), 1)))

\* the wait status of a child that ended as stc; in.stat is the status of
\* the program it became
child_stat(stc, in) == IF stc.how = "replaced" THEN in.stat ELSE stc.code * 256

\* the default case of the switch: the parent of a fork whose child ended
\* with stat; in.sig says whether a signal is pending at sigchk()
case_parent(st, stat, path, in) ==
    Bind(setstatus([st EXCEPT !.redirq = <<>>], -1, stat), LAMBDA st1 :
        IF ~st1.run THEN st1
        ELSE
    Bind(sigchk(IF WIFEXITED(stat) THEN [st1 EXCEPT !.nl_on_intr = FALSE] ELSE st1,
                in.sig), LAMBDA st2 :
        IF ~st2.run \/ st2.raised THEN st2
        ELSE
    Bind(pop_cmdarg([st2 EXCEPT !.nl_on_intr = TRUE], TRUE), LAMBDA st3 :
        IF path # NULL /\ stat # 0 THEN verify_cmd(st3, path) ELSE st3)))

\* a plausible slip: the owning-PID marker is invalidated before the test for
\* a null exec
null_exec_doomed(st) == [doredirs(st) EXCEPT !.rc_pid = "-1"]

\* the null exec: do redirs and return
null_exec(st) == doredirs(st)

\* What the model records of a call of exec: how it ended (kind), the prefix
\* loop's results, the path which() returned, whether it forked, and what
\* was run (a builtin_t, or "program" after an execve) in which process.
ExecGhost(kind, r, w, didfork, what, where) ==
    [kind |-> kind, trace |-> r.trace, saw_exec |-> r.saw_exec, b |-> r.b,
     parent |-> r.parent, rest |-> r.av, path |-> w.ret, probes |-> w.probes,
     dir |-> w.dir, didfork |-> didfork, what |-> what, where |-> where]

\* a plausible slip: the queued redirections are applied, not discarded
no_command_redirs(st, parent) ==
    Bind(set(st, FALSE), LAMBDA s1 :
        IF ~s1.run THEN s1
        ELSE IF parent THEN doredirs(s1)
        ELSE rc_exit(doredirs(s1), 1))

\* which() found no file for the command word: set(FALSE), redirq = NULL,
\* and return (parent) or rc_exit(1)
no_command(st, parent) ==
    Bind(set(st, FALSE), LAMBDA s1 :
        IF ~s1.run THEN s1
        ELSE IF parent THEN [s1 EXCEPT !.redirq = <<>>]
        ELSE rc_exit([s1 EXCEPT !.redirq = <<>>], 1))

\* exec(s, parent): [st, g], the process it leaves and the record of the call.
\* in.forkfail says whether rc_fork fails.
exec(st, s, parent, in) ==
    Bind(prefix_loop(st, s, FALSE, FALSE, parent, <<>>), LAMBDA r :
        IF r.av = <<>> /\ r.saw_exec
        THEN [st |-> null_exec(st),
              g |-> ExecGhost("null exec", r,
                              [ret |-> NULL, probes |-> <<>>, dir |-> NULL],
                              FALSE, NULL, "none")]
        ELSE
    Bind(IF r.saw_exec THEN [st EXCEPT !.rc_pid = "-1"] ELSE st, LAMBDA st1 :
    Bind(IF r.b = NULL
         THEN which(st1, IF r.av = <<>> THEN NULL ELSE r.av[1], TRUE)
         ELSE [st |-> st1, ret |-> NULL, probes |-> <<>>, dir |-> NULL], LAMBDA w :
        IF r.b = NULL /\ w.ret = NULL /\ r.av # <<>>
        THEN [st |-> no_command(w.st, r.parent),
              g |-> ExecGhost("unresolved", r, w, FALSE, NULL, "none")]
        ELSE
    Bind(IF r.b = NULL THEN makeenv(w.st) ELSE w.st, LAMBDA st2 :
    Bind(forks(st2, r.parent, r.b), LAMBDA didfork :
    Bind(IF r.b # NULL THEN r.b
         ELSE IF r.av # <<>> /\ execve_ok(w.ret) THEN <<"program">>
         ELSE NULL, LAMBDA what :
        IF didfork /\ in.forkfail
        THEN [st |-> rc_raise(fprint(st2, <<"uerror", "fork">>)),
              g |-> ExecGhost("fork failed", r, w, TRUE, NULL, "none")]
        ELSE IF didfork
             THEN Bind(case_0(st2, r, w.ret, in, FALSE), LAMBDA child :
                      [st |-> case_parent(st2, child_stat(child, in), w.ret, in),
                       g |-> ExecGhost("waited", r, w, TRUE, what, "child"),
                       child |-> child])
        ELSE [st |-> case_0(st2, r, w.ret, in, r.parent),
              g |-> ExecGhost("in place", r, w, FALSE, what, "self")]))))))

(***************************************************************************)
(* The status operations as actions of the shell.                          *)
(***************************************************************************)
\* the resolution of undefined behaviour when none is possible
NoUB == [abort |-> FALSE, garbage |-> FALSE]

\* the process state an operation starts from; u says how undefined behaviour
\* turns out in it
St(u) ==
    [a |-> statuses, n |-> pipelength, out |-> <<>>, run |-> TRUE, code |-> -1,
     raised |-> FALSE, how |-> "exited", u |-> u, rc_pid |-> rc_pid,
     fp |-> fp, fsize |-> fsize, fused |-> fused,
     vp |-> vp, vsize |-> vsize, vused |-> vused,
     cp |-> cp, csize |-> csize, cused |-> cused,
     env_dirty |-> env_dirty, env |-> env, bozosize |-> bozosize,
     maybeexport |-> maybeexport, pfree |-> pfree, ub |-> ub,
     redirq |-> redirq, fds |-> fds, cmdarg |-> cmdarg,
     nl_on_intr |-> nl_on_intr, sigs |-> sigs]

St0 == St(NoUB)

\* the process state an operation leaves
Commit(st) ==
    /\ statuses' = st.a
    /\ pipelength' = st.n
    /\ errout' = st.out
    /\ shell' = IF st.run THEN "running" ELSE st.how
    /\ exitcode' = st.code
    /\ rc_pid' = st.rc_pid
    /\ fp' = st.fp /\ fsize' = st.fsize /\ fused' = st.fused
    /\ vp' = st.vp /\ vsize' = st.vsize /\ vused' = st.vused
    /\ cp' = st.cp /\ csize' = st.csize /\ cused' = st.cused
    /\ env_dirty' = st.env_dirty
    /\ env' = st.env
    /\ bozosize' = st.bozosize
    /\ maybeexport' = st.maybeexport
    /\ pfree' = st.pfree
    /\ ub' = st.ub
    /\ redirq' = st.redirq
    /\ fds' = st.fds
    /\ cmdarg' = st.cmdarg
    /\ nl_on_intr' = st.nl_on_intr
    /\ sigs' = st.sigs
    /\ UNCHANGED <<envvars, sysvars>>

\* the wait statuses a child can end with: exit 0, exit 1, SIGSEGV+core
RawStatuses == {0, 256, 139}

Reverse(s) == [k \in 1..Len(s) |-> s[Len(s) + 1 - k]]

SeqsUpTo(S, n) == UNION {[1..k -> S] : k \in 1..n}

\* The last status operation: the pipeline it was to store (cell 0 first), the
\* raw wait statuses of children it was handed, and whether it ran to its end.
StatusOp(name, stored, raw, st) ==
    [name |-> name, stored |-> stored, raw |-> raw, done |-> st.run /\ ~st.raised]

SetStatusOp ==
    \E pid \in {-1, 7}, i \in RawStatuses :
        \E st \in {setstatus(St0, pid, i)} :
            /\ shell = "running"
            /\ Commit(st)
            /\ op' = StatusOp("setstatus", <<i>>, {i}, st)

SetOp ==
    \E code \in BOOLEAN :
        \E st \in {set(St0, code)} :
            /\ shell = "running"
            /\ Commit(st)
            /\ op' = StatusOp("set", <<IF code THEN 0 ELSE 256>>, {}, st)

SetPipeStatusOp ==
    \E stats \in SeqsUpTo(RawStatuses, MaxPipe) :
        \E st \in {setpipestatus(St0, stats)} :
            /\ shell = "running"
            /\ Commit(st)
            /\ op' = StatusOp("setpipestatus", stats, {stats[k] : k \in 1..Len(stats)}, st)

\* an argument of wait and what waiting for it does
WaitArgs ==
    {[arg |-> <<"x">>, ret |-> 0, stat |-> 0, errno |-> "", sig |-> FALSE]}
    \cup {[arg |-> <<"7">>, ret |-> 7, stat |-> s, errno |-> "", sig |-> FALSE] :
             s \in {0, 256}}
    \cup {[arg |-> <<"7">>, ret |-> -1, stat |-> 0, errno |-> "EINTR", sig |-> FALSE]}
    \cup {[arg |-> <<"7">>, ret |-> -1, stat |-> 0, errno |-> "ECHILD", sig |-> TRUE]}

\* the status of one argument of wait
WaitResult(x) == IF a2u(x.arg) >= 0 /\ x.ret > 0 THEN x.stat ELSE 256

\* the pipeline a wait is to store: the reverse of its arguments' statuses, or
\* a single false status when it is interrupted or has too many arguments
WaitStored(xs) ==
    IF Len(xs) >= SizeofStatuses \/ \E k \in 1..Len(xs) : xs[k].errno = "EINTR"
    THEN <<256>>
    ELSE Reverse([k \in 1..Len(xs) |-> WaitResult(xs[k])])

\* the wait statuses rc_wait4 delivers to a wait: those of the valid arguments
\* it reaches, which are the ones before an interrupted wait or a raised signal
WaitRaw(xs) ==
    {xs[k].stat : k \in {m \in 1..Len(xs) :
        /\ Len(xs) < SizeofStatuses
        /\ a2u(xs[m].arg) >= 0 /\ xs[m].ret > 0
        /\ \A h \in 1..(m - 1) :
              a2u(xs[h].arg) < 0 \/ (xs[h].errno # "EINTR" /\ ~xs[h].sig)}}

SetWaitStatusOp ==
    \E xs \in SeqsUpTo(WaitArgs, MaxPipe) :
        \E st \in {setwaitstatus(St0, [k \in 1..Len(xs) |-> xs[k].arg], xs, "wait")} :
            /\ shell = "running"
            /\ Commit(st)
            /\ op' = StatusOp("setwaitstatus", WaitStored(xs), WaitRaw(xs), st)

StatusWords ==
    {<<"0">>, <<"s","i","g","s","e","g","v","+","c","o","r","e">>, <<"f","o","o">>}

\* ssetword on the words above, computed once
SSetWords == [s \in StatusWords |-> ssetword(s)]

SSetStatusOp ==
    \E av \in SeqsUpTo(StatusWords, MaxPipe) :
        \E st \in {ssetstatus(St0, [k \in 1..Len(av) |-> SSetWords[av[k]]])} :
            /\ shell = "running"
            /\ Commit(st)
            /\ op' = StatusOp("ssetstatus",
                              [k \in 1..Len(av) |-> SSetWords[av[Len(av) + 1 - k]]],
                              {}, st)

\* the evaluator enters or leaves the condition of an if, while, && or ||
SetCond ==
    /\ shell = "running"
    /\ cond' = ~cond
    /\ op' = [name |-> "cond"]
    /\ UNCHANGED <<procvars, dashee, dashpee, interactive, creds, fs, sysvars>>

\* the process after main has set it up, but for its tables
InitShell ==
    /\ statuses = <<>>
    /\ pipelength = 1
    /\ shell = "running"
    /\ exitcode = -1
    /\ errout = <<>>
    /\ rc_pid = "self"
    /\ redirq = <<>>
    /\ fds = {}
    /\ cmdarg = FALSE
    /\ nl_on_intr = TRUE
    /\ sigs = "shell"
    /\ env = <<>>
    /\ bozosize = 0
    /\ maybeexport = {}
    /\ slow = FALSE
    /\ caught = FALSE
    /\ slowpc = [fn |-> "none", at |-> "out"]
    /\ op = [name |-> "init"]

\* the tables after inithash
InitTables ==
    /\ fp = <<>> /\ fsize = HASHSIZE /\ fused = 0
    /\ vp = <<>> /\ vsize = HASHSIZE /\ vused = 0
    /\ cp = <<>> /\ csize = HASHSIZE /\ cused = 0
    /\ env_dirty = TRUE
    /\ pfree = {}
    /\ ub = {}

InitProc == InitShell /\ InitTables

Init ==
    /\ InitProc
    /\ dashee \in BOOLEAN
    /\ cond = FALSE
    /\ interactive \in BOOLEAN
    /\ creds = Creds
    /\ dashpee = FALSE
    /\ fs = <<>>

\* a shell started without -e and -i
InitPlain ==
    /\ InitProc
    /\ dashee = FALSE
    /\ cond = FALSE
    /\ interactive = FALSE
    /\ creds = Creds
    /\ dashpee = FALSE
    /\ fs = <<>>

NextStatus ==
    \/ SetStatusOp
    \/ SetOp
    \/ SetPipeStatusOp
    \/ SetWaitStatusOp
    \/ SSetStatusOp
    \/ SetCond

SpecStatus == Init /\ [][NextStatus]_vars

(***************************************************************************)
(* The variable table: assignments and deletions as the evaluator makes    *)
(* them.  "q" and "0" hash to the same slot, so deletions leave tombstones.*)
(***************************************************************************)
VarNames == {<<"q">>, <<"0">>}

\* the values (lists of words) a variable is given
VarValues == {"A", "B"}

\* the tombstones of a table
Dead(ht) == {h \in DOMAIN ht : ht[h].dead}

\* no local scope is being followed
NoScope == [s |-> NULL, v |-> NULL]

\* the local scope the last operation left open: the name a stacking
\* assignment shadowed and the stack of values it had then, as long as only
\* non-stacking operations on that name have followed
OpScope == IF "scope" \in DOMAIN op THEN op.scope ELSE NoScope

GetVarPlaceOp ==
    \E s \in VarNames, stack \in BOOLEAN, def \in VarValues :
        LET before == lookup_var(St0, s)
        IN  /\ shell = "running"
            /\ stack => (before = NULL \/ Len(before) < MaxDepth)
            /\ \E st \in {get_var_place(St0, s, stack, def)} :
                  /\ Commit(st)
                  /\ op' = [name |-> "get_var_place", s |-> s, stack |-> stack,
                            def |-> def, before |-> before,
                            scope |-> IF stack
                                      THEN IF before = NULL THEN NoScope
                                           ELSE [s |-> s, v |-> before]
                                      ELSE IF OpScope.s = s THEN OpScope ELSE NoScope]

DeleteVarOp ==
    \E s \in VarNames, stack \in BOOLEAN :
        \E st \in {delete_var(St0, s, stack)} :
            /\ shell = "running"
            /\ Cardinality(Dead(st.vp)) <= MaxDead
            /\ Commit(st)
            /\ op' = [name |-> "delete_var", s |-> s, stack |-> stack,
                      before |-> lookup_var(St0, s),
                      closes |-> IF stack /\ OpScope.s = s THEN OpScope.v ELSE NULL,
                      scope |-> IF ~stack /\ OpScope.s = s THEN OpScope ELSE NoScope]

NextVar ==
    \/ GetVarPlaceOp
    \/ DeleteVarOp

SpecVar == InitPlain /\ [][NextVar]_vars

(***************************************************************************)
(* Claims about the variable table.                                        *)
(***************************************************************************)
\* C3: when a name has the value A, a stacking assignment followed by any
\* number of non-stacking assignments and deletions of that name and then a
\* stacking deletion leaves the name with the value A (and the stack it had);
\* and a non-stacking assignment of B to a name that has a value leaves the
\* value B on a stack of the same depth.
C3_Stacking ==
    /\ (op.name = "delete_var" /\ shell = "running" /\ op.closes # NULL)
       => lookup_var(St0, op.s) = op.closes
    /\ (op.name = "get_var_place" /\ shell = "running" /\ ~op.stack
        /\ op.before # NULL)
       => /\ lookup_var(St0, op.s) # NULL
          /\ Head(lookup_var(St0, op.s)) = op.def
          /\ Len(lookup_var(St0, op.s)) = Len(op.before)

\* a scope over "0" = A was closed after its local value was assigned and
\* deleted, while the neighbouring slot of "q" held a tombstone
C3_Witness ==
    /\ op.name = "delete_var"
    /\ shell = "running"
    /\ op.s = <<"0">>
    /\ op.closes = <<"A">>
    /\ op.before = <<EmptyList, "A">>
    /\ lookup_var(St0, <<"0">>) = <<"A">>
    /\ \E h \in DOMAIN vp : vp[h].dead

(***************************************************************************)
(* The path cache: set_cmd_path as which() calls it, delete_cmd as         *)
(* verify_cmd calls it, reset_cmdtab as an assignment to path calls it,    *)
(* and the definition and deletion of a function in between.  $path is     *)
(* ('' /b); the command "q" and the function "0" hash to slot 24, the       *)
(* command "s" to slot 25.                                                 *)
(***************************************************************************)
CmdNames == {<<"q">>, <<"s">>}

\* rounds of "cache q, lose its file, run q" the shell has been through when
\* the model starts: each leaves cused one higher and fused one lower
DriftBase == {0, (HASHSIZE \div 2) - 2}

InDrift(f) == \E k \in DriftBase : f >= -k - MaxDrift /\ f <= 1 - k

\* how undefined behaviour can turn out in the state the process is in
UBs ==
    IF pfree = {} /\ Dead(cp) = {} /\ Dead(fp) = {} /\ csize <= fsize THEN {NoUB}
    ELSE [abort : BOOLEAN, garbage : BOOLEAN]

InitCmd ==
    \E k \in DriftBase :
        /\ InitShell
        /\ dashee = FALSE /\ cond = FALSE /\ interactive = FALSE /\ fs = <<>>
        /\ creds = Creds
        /\ dashpee = FALSE
        /\ fp = <<>> /\ fsize = HASHSIZE /\ fused = -k
        /\ vp = <<>> /\ vsize = HASHSIZE /\ vused = 0
        /\ cp = <<>> /\ csize = HASHSIZE /\ cused = k
        /\ env_dirty = TRUE
        /\ pfree = IF k = 0 THEN {} ELSE {WordPtr(2)}
        /\ ub = IF k > 1 THEN {"invalid free"} ELSE {}

SetCmdPathOp ==
    \E cmd \in CmdNames, i \in 1..Len(PathList), u \in UBs :
        \E st \in {set_cmd_path(St(u), cmd, WordPtr(i))} :
            /\ shell = "running"
            /\ lookup_cmd(St0, cmd) = NULL
            /\ Commit(st)
            /\ op' = [name |-> "set_cmd_path", s |-> cmd, path |-> WordPtr(i),
                      rehashed |-> st.csize # csize]

DeleteCmdOp ==
    \E cmd \in CmdNames, u \in UBs :
        \E st \in {delete_cmd(St(u), cmd)} :
            /\ shell = "running"
            /\ Cardinality(Dead(st.cp)) <= MaxDead
            /\ InDrift(st.fused)
            /\ Commit(st)
            /\ op' = [name |-> "delete_cmd", s |-> cmd]

ResetCmdtabOp ==
    \E u \in UBs :
        \E st \in {reset_cmdtab(St(u))} :
            /\ shell = "running"
            /\ Commit(st)
            /\ op' = [name |-> "reset_cmdtab", live |-> Cardinality(Live(cp)),
                      dead |-> Cardinality(Dead(cp))]

FnPlaceOp(Fns) ==
    \E s \in Fns :
        \E st \in {get_fn_place(St0, s, <<"F">>)} :
            /\ shell = "running"
            /\ InDrift(st.fused)
            /\ Commit(st)
            /\ op' = [name |-> "get_fn_place", s |-> s]

DeleteFnOp(Fns) ==
    \E s \in Fns :
        \E st \in {delete_fn(St0, s)} :
            /\ shell = "running"
            /\ InDrift(st.fused)
            /\ Commit(st)
            /\ op' = [name |-> "delete_fn", s |-> s]

NextCmd ==
    \/ SetCmdPathOp
    \/ DeleteCmdOp
    \/ ResetCmdtabOp
    \/ FnPlaceOp({<<"0">>})
    \/ DeleteFnOp({<<"0">>})

SpecCmd == InitCmd /\ [][NextCmd]_vars

(***************************************************************************)
(* Claims about the path cache.                                            *)
(***************************************************************************)
\* C4: after reset_cmdtab the path cache is empty: lookup_cmd finds no name,
\* whatever set_cmd_path, delete_cmd and rehash did before.
C4_ResetEmpties ==
    (op.name = "reset_cmdtab" /\ shell = "running")
    => /\ \A name \in CmdNames \cup {<<>>} : lookup_cmd(St0, name) = NULL
       /\ cp = <<>>

\* the cache that was reset had been rehashed and held two entries
C4_Witness ==
    /\ op.name = "reset_cmdtab"
    /\ shell = "running"
    /\ csize > HASHSIZE
    /\ op.live = 2
    /\ cp = <<>>

(***************************************************************************)
(* The path search and its cache: the shell runs "q" from its reader,      *)
(* whatis asks which("q"), files come and go, the function "0" is defined  *)
(* and deleted, and path is assigned.                                      *)
(***************************************************************************)
q_word == <<"q">>

\* the executable files of the model: q in the current directory and in /b
Files == {q_word, <<"/", "b", "/", "q">>}

\* a regular file of root's with mode 0755
Exe == [type |-> "reg", mode |-> 493, uid |-> 0, gid |-> 0]

\* what happens around a call of exec: the status a builtin or function
\* sets, the wait status of an executed program, whether a signal is pending
\* when the parent checks, and whether rc_fork fails
ExecInputs ==
    {[bok |-> TRUE, stat |-> 0, sig |-> FALSE, forkfail |-> FALSE],
     [bok |-> FALSE, stat |-> 256, sig |-> FALSE, forkfail |-> FALSE],
     [bok |-> FALSE, stat |-> 139, sig |-> TRUE, forkfail |-> FALSE],
     [bok |-> TRUE, stat |-> 0, sig |-> FALSE, forkfail |-> TRUE]}

\* the variable table after path = ('' /b)
PathSet ==
    [h \in {hash(path_name, HASHSIZE)} |->
        [name |-> path_name, dead |-> FALSE, p |-> <<"P">>]]

InitWhich ==
    /\ InitShell
    /\ dashee = FALSE /\ cond = FALSE /\ interactive = FALSE
    /\ creds = Creds
    /\ dashpee = FALSE
    /\ fs \in {[f \in F |-> Exe] : F \in SUBSET Files}
    /\ fp = <<>> /\ fsize = HASHSIZE /\ fused = 0
    /\ vp = PathSet /\ vsize = HASHSIZE /\ vused = 1
    /\ cp = <<>> /\ csize = HASHSIZE /\ cused = 0
    /\ env_dirty = TRUE
    /\ pfree = {}
    /\ ub = {}

ExecOp(Args, Parents) ==
    \E s \in Args, parent \in Parents, in \in ExecInputs, u \in UBs :
        \E x \in {exec(St(u), s, parent, in)} :
            /\ shell = "running"
            /\ InDrift(x.st.fused)
            /\ Commit(x.st)
            /\ op' = [name |-> "exec", av |-> s, parent0 |-> parent,
                      redirs |-> redirq # <<>>, fifos |-> cmdarg, sigs0 |-> sigs,
                      childsigs |-> IF x.g.where = "child" THEN x.child.sigs
                                    ELSE "none"] @@ x.g

WhichOp ==
    \E name \in {q_word}, u \in UBs :
        \E x \in {which(St(u), name, FALSE)} :
            /\ shell = "running"
            /\ Commit(x.st)
            /\ op' = [name |-> "which", s |-> name, ret |-> x.ret,
                      probes |-> x.probes, dir |-> x.dir,
                      cached |-> lookup_cmd(St0, name)]

\* a file is installed or removed
FsOp ==
    \E f \in Files :
        /\ shell = "running"
        /\ fs' = IF f \in DOMAIN fs THEN [g \in DOMAIN fs \ {f} |-> fs[g]]
                 ELSE [g \in DOMAIN fs \cup {f} |-> Exe]
        /\ op' = [name |-> "fs", s |-> f]
        /\ UNCHANGED <<procvars, dashee, dashpee, cond, interactive, creds, sysvars>>

\* path = ('' /b): the assignment and the reset_cmdtab it is followed by
PathAssignOp ==
    \E u \in UBs :
        \E st \in {get_var_place(St(u), path_name, FALSE, "P")} :
            \E st1 \in {IF st.run THEN reset_cmdtab(st) ELSE st} :
                /\ shell = "running"
                /\ Commit(st1)
                /\ op' = [name |-> "path ="]

NextWhich ==
    \/ ExecOp({<<q_word>>}, {TRUE})
    \/ WhichOp
    \/ FsOp
    \/ FnPlaceOp({<<"0">>})
    \/ DeleteFnOp({<<"0">>})
    \/ PathAssignOp

SpecWhich == InitWhich /\ [][NextWhich]_vars

(***************************************************************************)
(* Claims about the path search and its cache.                             *)
(***************************************************************************)
\* C5: when a command that is cached under a directory is no longer
\* executable there, running it (no undefined behaviour having occurred, and
\* the shell going on) leaves a non-zero status and no cache entry for it.
C5_Invalidation ==
    (/\ op.name = "exec" /\ op.kind = "waited"
     /\ op.b = NULL /\ op.rest # <<>>
     /\ op.probes = <<>>
     /\ ~access_ok(op.path)
     /\ ub = {}
     /\ shell = "running")
    => /\ ~istrue(statuses, pipelength)
       /\ lookup_cmd(St0, op.rest[1]) = NULL

\* C6: after which(name) has resolved an uncached name by searching $path,
\* the path cache maps the name to the directory that won.
C6_Caching ==
    (/\ op.name = "which"
     /\ shell = "running"
     /\ op.cached = NULL
     /\ op.ret # NULL
     /\ op.dir # NULL
     /\ ub = {})
    => lookup_cmd(St0, op.s) = op.dir

(***************************************************************************)
(* The dispatcher: commands with and without the exec and builtin          *)
(* prefixes, run by the reader (parent) or in a process that may be        *)
(* replaced, with redirections queued and fifos outstanding or not; the    *)
(* function echo is defined and deleted.  q is found in /b.                *)
(***************************************************************************)
s_word == <<"s">>

ExecArgs ==
    {<<>>, <<q_word>>, <<s_word>>, <<echo_word>>, <<exec_word>>,
     <<exec_word, q_word>>, <<exec_word, echo_word>>,
     <<builtin_word, q_word>>, <<builtin_word, echo_word>>,
     <<builtin_word, builtin_word, echo_word>>,
     <<builtin_word, exec_word, echo_word>>,
     <<builtin_word, exec_word>>}

InitExec ==
    /\ InitShell
    /\ dashee = FALSE /\ cond = FALSE /\ interactive = FALSE
    /\ creds = Creds
    /\ dashpee = FALSE
    /\ fs = [f \in {<<"/", "b", "/", "q">>} |-> Exe]
    /\ fp = <<>> /\ fsize = HASHSIZE /\ fused = 0
    /\ vp = PathSet /\ vsize = HASHSIZE /\ vused = 1
    /\ cp = <<>> /\ csize = HASHSIZE /\ cused = 0
    /\ env_dirty = TRUE
    /\ pfree = {}
    /\ ub = {}

\* the evaluator queues a redirection for the command it is about to run
QueueRedirOp ==
    /\ shell = "running"
    /\ redirq = <<>>
    /\ redirq' = <<">foo">>
    /\ op' = [name |-> "redirection"]
    /\ UNCHANGED <<statuses, pipelength, shell, exitcode, errout, rc_pid, fp, fsize,
                   fused, vp, vsize, vused, cp, csize, cused, env_dirty, env,
                   bozosize, maybeexport, pfree, ub,
                   fds, cmdarg, nl_on_intr, sigs, envvars, sysvars>>

\* the evaluator opens a fifo for a <{} argument of the command
PushCmdargOp ==
    /\ shell = "running"
    /\ ~cmdarg
    /\ cmdarg' = TRUE
    /\ op' = [name |-> "cmdarg"]
    /\ UNCHANGED <<statuses, pipelength, shell, exitcode, errout, rc_pid, fp, fsize,
                   fused, vp, vsize, vused, cp, csize, cused, env_dirty, env,
                   bozosize, maybeexport, pfree, ub,
                   redirq, fds, nl_on_intr, sigs, envvars, sysvars>>

NextExec ==
    \/ ExecOp(ExecArgs, BOOLEAN)
    \/ QueueRedirOp
    \/ PushCmdargOp
    \/ FnPlaceOp({echo_word})
    \/ DeleteFnOp({echo_word})

SpecExec == InitExec /\ [][NextExec]_vars

(***************************************************************************)
(* Claims about the dispatcher.                                            *)
(***************************************************************************)
\* C7: a null exec (an exec prefix was seen and no command word remains)
\* applies the queued redirections in the calling process and returns: no
\* fork, no exit, the status vector and rc_pid unchanged, the shell alive
\* with the redirections in effect.
C7_NullExec ==
    [][(op'.name = "exec" /\ op'.saw_exec /\ op'.rest = <<>>)
       => /\ op'.kind = "null exec"
          /\ ~op'.didfork
          /\ op'.where = "none"
          /\ shell' = "running" /\ exitcode' = -1
          /\ statuses' = statuses /\ pipelength' = pipelength
          /\ rc_pid' = rc_pid
          /\ fds' = fds \cup {redirq[k] : k \in 1..Len(redirq)}
          /\ redirq' = <<>>]_vars

\* exec >foo in the reader with fifos outstanding: the shell runs on with
\* stdout redirected
C7_Witness ==
    /\ op.name = "exec"
    /\ op.av = <<exec_word>>
    /\ op.parent0 /\ op.fifos /\ op.redirs
    /\ op.kind = "null exec"
    /\ shell = "running"
    /\ rc_pid = "self"
    /\ fds = {">foo"}

\* the resolutions of a call agree with the rule of the builtin prefix
BuiltinRule(trace) ==
    \A i \in 1..Len(trace) :
        /\ trace[i].saw_builtin <=> (i > 1 /\ trace[i - 1].b = b_builtin)
        /\ (trace[i].word # NULL /\ ~isabsolute(trace[i].word))
           => (trace[i].b = funcall
               <=> (~trace[i].saw_builtin /\ lookup_fn(St0, trace[i].word) # NULL))

\* C8: the function table is ignored in exactly the resolutions that follow
\* a builtin prefix; every other resolution of the same call consults it,
\* whatever the resolution after builtin found.
C8_BuiltinOnce == op.name = "exec" => BuiltinRule(op.trace)

\* builtin exec echo with a function echo: exec is resolved with the table
\* ignored, echo after it is the function
C8_Witness ==
    /\ op.name = "exec"
    /\ op.av = <<builtin_word, exec_word, echo_word>>
    /\ Len(op.trace) = 3
    /\ op.trace[2].saw_builtin /\ op.trace[2].b = b_exec
    /\ ~op.trace[3].saw_builtin /\ op.trace[3].b = funcall

ForkCondition ==
    (op.parent /\ (op.b = NULL \/ op.redirs)) \/ op.fifos

\* C10 as stated: every call of exec forks if and only if the condition of
\* the fork decision holds.
C10_ForkIff == op.name = "exec" => (op.didfork <=> ForkCondition)

\* C10 amended: a call of exec that is not a null exec and whose command
\* word, when external, was found forks if and only if the condition holds,
\* and runs the command in the calling process otherwise; a null exec and
\* an unresolvable command never fork.
C10_ForkDecision ==
    op.name = "exec" =>
        IF op.kind \in {"null exec", "unresolved"} THEN ~op.didfork
        ELSE /\ op.didfork <=> ForkCondition
             /\ ~op.didfork => op.where = "self"
             /\ (op.didfork /\ op.kind = "waited") => op.where = "child"

\* exec echo <{...}: the parent flag was forced off and the builtin forked
\* all the same, for the fifos
C10_Witness ==
    /\ op.name = "exec"
    /\ op.av = <<exec_word, echo_word>>
    /\ op.fifos /\ ~op.redirs
    /\ ~op.parent
    /\ op.b = b_echo
    /\ op.didfork
    /\ op.where = "child"

(***************************************************************************)
(* Commands that are not found, with and without -e, in and outside a      *)
(* condition.                                                              *)
(***************************************************************************)
UnresArgs ==
    {<<s_word>>, <<exec_word, s_word>>, <<builtin_word, s_word>>, <<q_word>>,
     <<echo_word>>}

InitUnres ==
    /\ InitShell
    /\ dashee \in BOOLEAN /\ cond \in BOOLEAN /\ interactive = FALSE
    /\ creds = Creds
    /\ dashpee = FALSE
    /\ fs = [f \in {<<"/", "b", "/", "q">>} |-> Exe]
    /\ fp = <<>> /\ fsize = HASHSIZE /\ fused = 0
    /\ vp = PathSet /\ vsize = HASHSIZE /\ vused = 1
    /\ cp = <<>> /\ csize = HASHSIZE /\ cused = 0
    /\ env_dirty = TRUE
    /\ pfree = {}
    /\ ub = {}

NextUnres ==
    \/ ExecOp(UnresArgs, BOOLEAN)
    \/ QueueRedirOp
    \/ PushCmdargOp

SpecUnres == InitUnres /\ [][NextUnres]_vars

\* the call of exec that the step made found no file for its command word
UnresolvedCall ==
    /\ op'.name = "exec"
    /\ op'.b = NULL /\ op'.rest # <<>> /\ op'.path = NULL

\* C11 as stated: an unresolvable command sets the status to false, applies
\* no redirection, discards the queue, does not fork, and returns when the
\* parent flag is set and exits with code 1 when it is not.
C11_Unresolved ==
    [][UnresolvedCall
       => /\ pipelength' = 1 /\ StatAt(statuses', 0) = STATUS1
          /\ fds' = fds
          /\ ~op'.didfork
          /\ IF op'.parent THEN shell' = "running" /\ redirq' = <<>>
             ELSE shell' = "exited" /\ exitcode' = 1]_vars

\* C11 amended: the same, except that with -e set outside a condition the
\* call does not return to a parent either: set(FALSE) ends the shell with
\* code 1 (the queue is then not reset).
C11_UnresolvedOrExit ==
    [][UnresolvedCall
       => /\ pipelength' = 1 /\ StatAt(statuses', 0) = STATUS1
          /\ fds' = fds
          /\ ~op'.didfork
          /\ IF op'.parent /\ ~(dashee /\ ~cond)
             THEN shell' = "running" /\ redirq' = <<>>
             ELSE shell' = "exited" /\ exitcode' = 1]_vars

\* s >foo <{...} in the reader: nothing was redirected, the queue is empty,
\* the fifos are still outstanding and the shell runs on with a false status
C11_Witness ==
    /\ op.name = "exec"
    /\ op.av = <<s_word>>
    /\ op.parent /\ op.redirs /\ op.fifos
    /\ op.kind = "unresolved"
    /\ shell = "running"
    /\ redirq = <<>> /\ fds = {}
    /\ ~istrue(statuses, pipelength)


(***************************************************************************)
(* which() asked for absent, absolute and relative names, with path set    *)
(* and unset, while files come and go and the cache is flushed.            *)
(***************************************************************************)
abs_q == <<"/", "b", "/", "q">>

WhichNames == {NULL, q_word, s_word, abs_q, <<".", "/", "q">>}

InitSearch ==
    /\ InitShell
    /\ dashee = FALSE /\ cond = FALSE /\ interactive = FALSE
    /\ creds = Creds
    /\ dashpee = FALSE
    /\ fs \in {[f \in F |-> Exe] : F \in SUBSET Files}
    /\ fp = <<>> /\ fsize = HASHSIZE /\ fused = 0
    /\ vp \in {PathSet, <<>>} /\ vsize = HASHSIZE /\ vused = Cardinality(DOMAIN vp)
    /\ cp = <<>> /\ csize = HASHSIZE /\ cused = 0
    /\ env_dirty = TRUE
    /\ pfree = {}
    /\ ub = {}

\* which(name, verbose); cp0 and path0 are the cache and the value of path
\* that the call started from
WhichAnyOp ==
    \E name \in WhichNames, verbose \in BOOLEAN, u \in UBs :
        \E x \in {which(St(u), name, verbose)} :
            /\ shell = "running"
            /\ Commit(x.st)
            /\ op' = [name |-> "which", s |-> name, verbose |-> verbose,
                      ret |-> x.ret, probes |-> x.probes, dir |-> x.dir,
                      cp0 |-> cp,
                      path0 |-> IF lookup_var(St0, path_name) = NULL THEN <<>>
                                ELSE PathList]

NextSearch ==
    \/ WhichAnyOp
    \/ FsOp
    \/ ResetCmdtabOp
    \/ PathAssignOp

SpecSearch == InitSearch /\ [][NextSearch]_vars

\* the words of the path list whose joined file passes rc_access
Hits(path, name) == {i \in 1..Len(path) : access_ok(join(path[i], name))}

\* C12: from an empty cache, which(name) is NULL for an absent name; for an
\* absolute name it is the name iff rc_access(name) holds (NULL otherwise),
\* it probes nothing but the name and leaves the cache alone; for any other
\* name it is join(d, name) for the first word d of path whose joined file
\* passes rc_access, NULL when there is none.
C12_WhichResult ==
    (op.name = "which" /\ op.cp0 = <<>> /\ ub = {})
    => IF op.s = NULL THEN op.ret = NULL /\ op.probes = <<>>
       ELSE IF isabsolute(op.s)
            THEN /\ op.ret = (IF access_ok(op.s) THEN op.s ELSE NULL)
                 /\ op.probes = <<op.s>>
                 /\ cp = op.cp0
       ELSE IF Hits(op.path0, op.s) = {} THEN op.ret = NULL
       ELSE \E i \in Hits(op.path0, op.s) :
                /\ \A k \in Hits(op.path0, op.s) : i <= k
                /\ op.ret = join(op.path0[i], op.s)

\* q is in the current directory and in /b: the search ended at the first
\* word of path
C12_Witness ==
    /\ op.name = "which" /\ op.cp0 = <<>>
    /\ op.s = q_word
    /\ Cardinality(Hits(op.path0, op.s)) = 2
    /\ op.ret = q_word


(***************************************************************************)
(* rc_access for processes of root, of the owner, of a member of the       *)
(* file's group and of anybody else, on files of every kind and mode.      *)
(***************************************************************************)
CredSet ==
    {[uid |-> 0, gid |-> 0, gidset |-> {0}],
     Creds,
     [uid |-> 1001, gid |-> 100, gidset |-> {100}],
     [uid |-> 1001, gid |-> 101, gidset |-> {101, 27}],
     [uid |-> 1001, gid |-> 101, gidset |-> {}]}

\* modes 0, 0100, 0010, 0001, 0011, 0110, 0644, 0755
Modes == {0, 64, 8, 1, 9, 72, 420, 493}

FileSet == [type : {"reg", "dir"}, mode : Modes, uid : {0, 1000}, gid : {0, 100, 27}]

InitAccess ==
    /\ InitProc
    /\ dashee = FALSE /\ cond = FALSE /\ interactive = FALSE
    /\ creds \in CredSet
    /\ dashpee = FALSE
    /\ fs = <<>>

\* the file /b/q is created, changed or removed
ChangeFileOp ==
    \E F \in {{}, {abs_q}}, f \in FileSet :
        /\ shell = "running"
        /\ fs' = [g \in F |-> f]
        /\ op' = [name |-> "file"]
        /\ UNCHANGED <<procvars, dashee, dashpee, cond, interactive, creds, sysvars>>

AccessOp ==
    \E path \in {abs_q}, verbose \in BOOLEAN :
        \E x \in {rc_access(St0, path, verbose)} :
            /\ shell = "running"
            /\ Commit(x.st)
            /\ op' = [name |-> "rc_access", s |-> path, verbose |-> verbose,
                      ret |-> x.ok]

NextAccess ==
    \/ ChangeFileOp
    \/ AccessOp

SpecAccess == InitAccess /\ [][NextAccess]_vars

\* the execute bits that count for the process, by the first rule that
\* matches: root, owner, group member, anybody else
SelectedBits(f) ==
    IF creds.uid = 0 THEN {64, 8, 1}
    ELSE IF creds.uid = f.uid THEN {64}
    ELSE IF f.gid \in {creds.gid} \cup creds.gidset THEN {8}
    ELSE {1}

\* C13: rc_access(path) is true iff stat succeeds, the file is regular, and
\* its mode has one of the execute bits set that the first matching rule
\* selects.
C13_Access ==
    op.name = "rc_access" =>
        (op.ret <=> /\ op.s \in DOMAIN fs
                    /\ fs[op.s].type = "reg"
                    /\ \E b \in SelectedBits(fs[op.s]) : (fs[op.s].mode \div b) % 2 = 1)

\* a file with mode 0010 whose group is a supplementary group of the
\* process, which neither owns it nor is root
C13_Witness ==
    /\ op.name = "rc_access" /\ op.ret
    /\ fs[op.s].mode = 8 /\ fs[op.s].gid = 27
    /\ creds.gid # 27 /\ creds.uid \notin {0, fs[op.s].uid}


(***************************************************************************)
(* The wait builtin: children that exited, failed or were killed, bad      *)
(* numbers, processes that are no children, and interrupted waits.         *)
(***************************************************************************)
WaitCases ==
    {[arg |-> <<"x">>, ret |-> 0, stat |-> 0, errno |-> "", sig |-> FALSE],
     [arg |-> <<"1">>, ret |-> -1, stat |-> 0, errno |-> "ECHILD", sig |-> FALSE],
     [arg |-> <<"8">>, ret |-> -1, stat |-> 0, errno |-> "EINTR", sig |-> FALSE]}
    \cup {[arg |-> <<"7">>, ret |-> 7, stat |-> s, errno |-> "", sig |-> FALSE] :
             s \in {0, 256, 139}}

\* wait with the arguments and children above
WaitOp ==
    \E xs \in SeqsUpTo(WaitCases, MaxPipe) :
        \E st \in {setwaitstatus(St0, [k \in 1..Len(xs) |-> xs[k].arg], xs, "wait")} :
            /\ shell = "running"
            /\ Commit(st)
            /\ op' = StatusOp("setwaitstatus", WaitStored(xs), WaitRaw(xs), st)
                      @@ [args |-> xs]

SpecWait == Init /\ [][WaitOp]_vars

\* C14: after a wait with n arguments that was not interrupted, $status has
\* n elements, the i-th being the status of the i-th argument: that of the
\* child waited for, and "1" for an argument that is no number (or no child).
C14_WaitOrder ==
    (/\ op.name = "setwaitstatus" /\ op.done
     /\ \A k \in 1..Len(op.args) : op.args[k].errno # "EINTR")
    => /\ Len(sgetstatus(statuses, pipelength)) = Len(op.args)
       /\ \A i \in 1..Len(op.args) :
            sgetstatus(statuses, pipelength)[i] =
                IF a2u(op.args[i].arg) < 0 \/ op.args[i].ret <= 0 THEN <<"1">>
                ELSE strstatus(op.args[i].stat)

\* wait x 7 where the child 7 had exited with 0: $status is (1 0)
C14_Witness ==
    /\ op.name = "setwaitstatus" /\ op.done
    /\ Len(op.args) = 2
    /\ op.args[1].arg = <<"x">>
    /\ op.args[2].ret > 0 /\ op.args[2].stat = 0
    /\ sgetstatus(statuses, pipelength) = << <<"1">>, <<"0">> >>


(***************************************************************************)
(* $status read back into the status vector (return $status): exit codes,  *)
(* signals of the table and signals outside it, with and without a core.   *)
(***************************************************************************)
\* exit 0, exit 1, exit 255, sigsegv, sigsegv+core, signal 20, signal 20+core
RoundStatuses == {0, 256, 65280, 11, 139, 20, 148}

\* a pipeline ends with these statuses
PipeEndOp ==
    \E stats \in SeqsUpTo(RoundStatuses, MaxPipe) :
        \E st \in {setpipestatus(St0, stats)} :
            /\ shell = "running"
            /\ Commit(st)
            /\ op' = StatusOp("setpipestatus", stats, {stats[k] : k \in 1..Len(stats)}, st)

\* ssetstatus on the list that sgetstatus makes of the vector
ReturnStatusOp ==
    \E av \in {sgetstatus(statuses, pipelength)} :
        \E st \in {ssetstatus(St0, [k \in 1..Len(av) |-> ssetword(av[k])])} :
            /\ shell = "running"
            /\ Commit(st)
            /\ op' = [name |-> "return $status", av |-> av,
                      before |-> [i \in 0..(pipelength - 1) |-> StatAt(statuses, i)]]

NextRound ==
    \/ PipeEndOp
    \/ ReturnStatusOp

SpecRound == InitPlain /\ [][NextRound]_vars

\* C15: ssetstatus applied to the strings of sgetstatus stores the vector
\* that sgetstatus read: the same length, the same statuses in the same order.
C15_RoundTrip ==
    op.name = "return $status" =>
        /\ pipelength = Len(op.av)
        /\ \A i \in DOMAIN op.before : StatAt(statuses, i) = op.before[i]

\* the part of C15 that the code keeps: exit codes and the signals that have
\* a name in the table come back as they were
RoundTripNamed ==
    (op.name = "return $status"
     /\ \A i \in DOMAIN op.before : op.before[i] \in {0, 256, 65280, 11, 139})
    => /\ pipelength = Len(op.av)
       /\ \A i \in DOMAIN op.before : StatAt(statuses, i) = op.before[i]


(***************************************************************************)
(* The status as an integer, after return and after pipelines.             *)
(***************************************************************************)
ReturnWords ==
    {<<"0">>, <<"1">>, <<"2", "5", "6">>, <<"+", "c", "o", "r", "e">>,
     <<"s", "i", "g", "s", "e", "g", "v">>}

\* return with the words above: ssetstatus(av + 1)
ReturnOp ==
    \E av \in SeqsUpTo(ReturnWords, MaxPipe) :
        \E st \in {ssetstatus(St0, [k \in 1..Len(av) |-> ssetword(av[k])])} :
            /\ shell = "running"
            /\ Commit(st)
            /\ op' = [name |-> "return", av |-> av]

NextReturn ==
    \/ ReturnOp
    \/ PipeEndOp

SpecReturn == InitPlain /\ [][NextReturn]_vars

\* C16: getstatus() is 1 or 0 for a pipeline, as some status is non-zero or
\* none is; for a single status it is its exit code, and 1 when it is
\* signalled; and it is 0 exactly when istrue() holds.
C16_GetStatus ==
    /\ pipelength > 1 =>
          getstatus(statuses, pipelength) =
              (IF \E i \in 0..(pipelength - 1) : StatAt(statuses, i) # 0 THEN 1 ELSE 0)
    /\ pipelength = 1 =>
          getstatus(statuses, pipelength) =
              (IF WIFSIGNALED(StatAt(statuses, 0)) THEN 1
               ELSE WEXITSTATUS(StatAt(statuses, 0)))
    /\ getstatus(statuses, pipelength) = 0 <=> istrue(statuses, pipelength)

\* the part of C16 about the integer alone, without the consequence
GetStatusValue ==
    /\ pipelength > 1 =>
          getstatus(statuses, pipelength) =
              (IF \E i \in 0..(pipelength - 1) : StatAt(statuses, i) # 0 THEN 1 ELSE 0)
    /\ pipelength = 1 =>
          getstatus(statuses, pipelength) =
              (IF WIFSIGNALED(StatAt(statuses, 0)) THEN 1
               ELSE WEXITSTATUS(StatAt(statuses, 0)))


(***************************************************************************)
(* The exported environment: initenv at startup, then assignments and      *)
(* deletions of variables and functions, and makeenv whenever a command is *)
(* about to be executed.                                                   *)
(***************************************************************************)
\* the vectors the shell inherits: "z" is no name=value
EnvVectors == {<<>>, << <<"q", "=", "A">>, <<"z">> >>}

\* the assignments the evaluator makes: $noexport names q
EnvAssigns ==
    {[s |-> <<"q">>, def |-> "A"], [s |-> <<"0">>, def |-> "A"],
     [s |-> noexport_name, def |-> "q"], [s |-> version_name, def |-> "A"]}

EnvVarNames == {a.s : a \in EnvAssigns}

EnvFnNames == {<<"q">>, <<"s", "i", "g", "i", "n", "t">>}

\* the most operations that follow initenv
MaxOps == 5

\* what the operations hand on: the strings initenv retained, and the number
\* of operations since
EnvGhost == [bozo |-> op.bozo, n |-> op.n + 1]

\* initenv has run and the shell goes on
EnvRunning == shell = "running" /\ op.name # "init" /\ op.n < MaxOps

\* main calls initenv once, before anything else
InitenvOp ==
    /\ shell = "running"
    /\ op.name = "init"
    /\ \E envp \in EnvVectors :
          \E st \in {initenv(St0, envp)} :
              /\ Commit(st)
              /\ op' = [name |-> "initenv", bozo |-> st.env, n |-> 0]

\* an assignment to a variable; mark says that it is one that makes prompt
\* and version exportable
EnvAssignOp ==
    /\ EnvRunning
    /\ \E a \in EnvAssigns, mark \in BOOLEAN :
          \E st \in {get_var_place(St0, a.s, FALSE, a.def)} :
              /\ Commit(IF mark THEN set_exportable(st, a.s, TRUE) ELSE st)
              /\ op' = [name |-> "get_var_place"] @@ EnvGhost

EnvDeleteVarOp ==
    /\ EnvRunning
    /\ \E s \in EnvVarNames :
          \E st \in {delete_var(St0, s, FALSE)} :
              /\ Cardinality(Dead(st.vp)) <= MaxDead
              /\ Commit(set_exportable(st, s, FALSE))
              /\ op' = [name |-> "delete_var"] @@ EnvGhost

EnvFnOp ==
    /\ EnvRunning
    /\ \E s \in EnvFnNames :
          \E st \in {get_fn_place(St0, s, <<"F">>)} :
              /\ Commit(st)
              /\ op' = [name |-> "get_fn_place"] @@ EnvGhost

EnvDeleteFnOp ==
    /\ EnvRunning
    /\ \E s \in EnvFnNames :
          \E st \in {delete_fn(St0, s)} :
              /\ Cardinality(Dead(st.fp)) <= MaxDead
              /\ Commit(st)
              /\ op' = [name |-> "delete_fn"] @@ EnvGhost

\* rebuilt says that the call found the vector out of date
MakeenvOp ==
    /\ EnvRunning
    /\ \E u \in UBs :
          \E st \in {makeenv(St(u))} :
              /\ Commit(st)
              /\ op' = [name |-> "makeenv", rebuilt |-> env_dirty] @@ EnvGhost

NextEnv ==
    \/ InitenvOp
    \/ EnvAssignOp
    \/ EnvDeleteVarOp
    \/ EnvFnOp
    \/ EnvDeleteFnOp
    \/ MakeenvOp

SpecEnv == InitPlain /\ [][NextEnv]_vars

\* how often the string s is in the vector v
Count(v, s) == Cardinality({j \in 1..Len(v) : v[j] = s})

\* C17: every string that initenv retained as a bozo string is in the vector
\* that makeenv returns, unchanged and exactly once, whatever assignments and
\* deletions and however many rebuilds went before
C17_BozoPassThrough ==
    op.name = "makeenv" => \A k \in 1..Len(op.bozo) : Count(env, op.bozo[k]) = 1


\* the strings of the vector v
Strings(v) == {v[k] : k \in 1..Len(v)}

Sorted(v) == \A k \in 1..(Len(v) - 1) : starstrcmp(v[k], v[k + 1]) <= 0

\* the names in the live cells of a table
LiveNames(ht) == {ht[i].name : i \in Live(ht)}

\* the top value of the live variable s
TopValue(s) == Head(vp[CHOOSE i \in Live(vp) : vp[i].name = s].p)

\* the words of $noexport
NoExportWords ==
    IF noexport_name \in LiveNames(vp) /\ TopValue(noexport_name) # EmptyList
    THEN {<<TopValue(noexport_name)>>}
    ELSE {}

SignalNames == {signals[i] : i \in DOMAIN signals} \cup {sigexit_name}

\* the export strings the vector is to hold
VarStrings ==
    {s \o <<"=", TopValue(s)>> :
        s \in {t \in LiveNames(vp) : /\ TopValue(t) # EmptyList
                                     /\ t \notin NoExportWords
                                     /\ t \in MaybeExport => t \in maybeexport}}

FnStrings ==
    {fn_prefix \o s \o <<"=", "{">> \o fp[CHOOSE i \in Live(fp) : fp[i].name = s].p
                    \o <<"}">> :
        s \in LiveNames(fp) \ SignalNames}

EnvContents ==
    /\ Sorted(env)
    /\ VarStrings \cup FnStrings \subseteq Strings(env)
    /\ \A e \in Strings(env) : strchr(e, "=") # 0 => e \in VarStrings \cup FnStrings

\* C18: the vector makeenv returns is sorted in ascending string order; it
\* holds the export string of every live variable that has one and of every
\* live function, but for the variables $noexport names, prompt and version
\* while not marked exportable, and the functions named as a signal or
\* sigexit; and it holds no name=value string of any other name
C18_MakeenvContents == op.name = "makeenv" => EnvContents

\* a shell that inherited no bozo string does get that vector
ContentsNoBozo == (op.name = "makeenv" /\ bozosize = 0) => EnvContents


(***************************************************************************)
(* initenv by itself: the shell is started with or without -p and with any *)
(* short vector of the strings below.                                      *)
(***************************************************************************)
\* the longest inherited vector
MaxEnvp == 3

fn_f_string == <<"f", "n", "_", "f", "=", "{", "F", "}">>

\* a variable, another variable, a function, and a string that is neither
EnvEntries == {<<"q", "=", "A">>, <<"0", "=", "B">>, fn_f_string, <<"z">>}

InitStartup ==
    /\ InitProc
    /\ dashee = FALSE /\ cond = FALSE /\ interactive = FALSE
    /\ dashpee \in BOOLEAN
    /\ creds = Creds
    /\ fs = <<>>

StartupOp ==
    /\ shell = "running"
    /\ op.name = "init"
    /\ \E envp \in UNION {[1..n -> EnvEntries] : n \in 0..MaxEnvp} :
          \E st \in {initenv(St0, envp)} :
              /\ Commit(st)
              /\ op' = [name |-> "initenv", envp |-> envp]

SpecStartup == InitStartup /\ [][StartupOp]_vars

\* the entry e starts with fn_
IsFnEntry(e) == Len(e) >= 3 /\ SubSeq(e, 1, 3) = fn_prefix

\* the name and the value of a name=value string
EntryName(e) == SubSeq(e, 1, strchr(e, "=") - 1)

EntryValue(e) == SubSeq(e, strchr(e, "=") + 1, Len(e))

\* the function fn_name={body} names is defined with that body
FnInstalled(e) ==
    \E i \in Live(fp) : /\ fp[i].name = SubSeq(EntryName(e), 4, Len(EntryName(e)))
                        /\ <<"{">> \o fp[i].p \o <<"}">> = EntryValue(e)

\* the variable name=value names has that value (of one character)
VarInstalled(e) ==
    /\ strchr(e, "=") # 0
    /\ EntryName(e) \in LiveNames(vp)
    /\ <<TopValue(EntryName(e))>> = SubSeq(EntryValue(e), 1, 1)

BozoRetained(e) == e \in Strings(SubSeq(env, 1, bozosize))

\* nothing of the entry e is in the shell
Dropped(e) ==
    /\ ~FnInstalled(e)
    /\ EntryName(e) \notin LiveNames(vp)
    /\ ~BozoRetained(e)

\* C19 as stated: an entry that starts with fn_ is installed as a function
\* when -p is not set; every other entry, and with -p set every entry, is
\* installed as a variable or else retained as a bozo string; none is dropped
C19_Initenv ==
    op.name = "initenv" =>
        \A k \in 1..Len(op.envp) :
            IF IsFnEntry(op.envp[k]) /\ ~dashpee
            THEN FnInstalled(op.envp[k])
            ELSE VarInstalled(op.envp[k]) \/ BozoRetained(op.envp[k])

\* C19 amended: an entry that starts with fn_ is installed as a function when
\* -p is not set and dropped when -p is set; every other entry is installed
\* as a variable when it is name=value and retained as a bozo string when it
\* is not
C19_InitenvDropsFn ==
    op.name = "initenv" =>
        \A k \in 1..Len(op.envp) :
            IF IsFnEntry(op.envp[k])
            THEN IF ~dashpee THEN FnInstalled(op.envp[k]) ELSE Dropped(op.envp[k])
            ELSE IF strchr(op.envp[k], "=") # 0
                 THEN VarInstalled(op.envp[k]) /\ ~BozoRetained(op.envp[k])
                 ELSE BozoRetained(op.envp[k])

\* -p is set and the vector holds a function, a variable and a bozo string
C19_Witness ==
    /\ op.name = "initenv"
    /\ dashpee
    /\ Strings(op.envp) = {fn_f_string, <<"q", "=", "A">>, <<"z">>}
    /\ Dropped(fn_f_string)
    /\ bozosize = 1


(***************************************************************************)
(* system.c: writeall.  The k-th call of write(2) takes at most short[k]   *)
(* bytes: it never fails and no signal arrives, so sigsetjmp returns 0     *)
(* each time and sigchk finds nothing.                                     *)
(***************************************************************************)
\* the longest buffer
MaxBuf == 4

Min(a, b) == IF a < b THEN a ELSE b

\* The loop of the build with restartable system calls, at its k-th round:
\* write(fd, safe_buf, safe_remain) where safe_buf is the buffer as writeall
\* was handed it; out is what fd has received.
RECURSIVE writeall_restartable(_, _, _, _, _)
writeall_restartable(safe_buf, safe_remain, short, k, out) ==
    IF safe_remain <= 0 THEN out
    ELSE Bind(Min(short[k], safe_remain), LAMBDA i :
         writeall_restartable(safe_buf, safe_remain - i, short, k + 1,
                              out \o SubSeq(safe_buf, 1, i)))

\* The loop of the other build, at its k-th round: write(fd, buf, remain)
RECURSIVE writeall_plain(_, _, _, _, _)
writeall_plain(buf, remain, short, k, out) ==
    IF remain <= 0 THEN out
    ELSE Bind(Min(short[k], remain), LAMBDA i :
         writeall_plain(StrFrom(buf, i), remain - i, short, k + 1,
                        out \o SubSeq(buf, 1, i)))

\* writeall(fd, buf, remain) as the build compiles it
writeall(build, buf, remain, short) ==
    IF build = "restartable"
    THEN writeall_restartable(buf, remain, short, 1, <<>>)
    ELSE writeall_plain(buf, remain, short, 1, <<>>)

Builds == {"restartable", "plain"}

\* one call of writeall in a shell that has just started
WriteallOp ==
    /\ shell = "running"
    /\ op.name = "init"
    /\ \E build \in Builds, n \in 0..MaxBuf :
          \E buf \in [1..n -> {"a", "b"}], short \in [1..MaxBuf -> 1..MaxBuf] :
              /\ op' = [name |-> "writeall", build |-> build, buf |-> buf,
                        short |-> short, out |-> writeall(build, buf, n, short)]
              /\ UNCHANGED <<procvars, envvars, sysvars>>

SpecWrite == InitPlain /\ [][WriteallOp]_vars

\* C20: when no write fails and no signal arrives, fd receives the bytes
\* buf[0..n-1], each once and in order, however short the writes are, in
\* the build with restartable system calls and in the build without
C20_WriteAll == op.name = "writeall" => op.out = op.buf

\* the build without restartable system calls does deliver the buffer
WriteAllPlain == (op.name = "writeall" /\ op.build = "plain") => op.out = op.buf

\* so does the other build when the first write takes everything
WriteAllAtOnce ==
    (op.name = "writeall" /\ op.short[1] >= Len(op.buf)) => op.out = op.buf


(***************************************************************************)
(* system.c, the build with restartable system calls: rc_read, rc_wait and *)
(* writeall step by step, with signals arriving between any two steps.     *)
(* A call is at "setjmp" (before sigsetjmp), "set_slow" (before slow =     *)
(* TRUE), "syscall" (in read, wait or write), "clear" (before slow =       *)
(* FALSE), "return", or, in writeall, at "test" (the loop condition) and   *)
(* "sigchk".  sc is [slow, caught, pc].                                    *)
(***************************************************************************)
EINTR == 4

ECHILD == 10

EIO == 5

\* the most bytes writeall is handed
MaxRemain == 2

SlowFns == {"rc_read", "rc_wait", "writeall"}

NoCall == [fn |-> "none", at |-> "out"]

\* entry to fn; sig says that a signal arrived since, while the system call
\* had not completed, jumped that the call was left by siglongjmp, and res is
\* what the system call returned once it is done
slow_enter(sc, fn, remain) ==
    [sc EXCEPT !.pc = [fn |-> fn, at |-> IF fn = "writeall" THEN "test" ELSE "setjmp",
                       remain |-> remain, r |-> 0, errno |-> 0,
                       sig |-> FALSE, jumped |-> FALSE, done |-> FALSE, res |-> 0]]

\* the loop condition of writeall: safe_remain > 0
writeall_test(sc) ==
    [sc EXCEPT !.pc.at = IF sc.pc.remain > 0 THEN "setjmp" ELSE "clear"]

\* sigsetjmp(slowbuf.j, 1) called directly: it returns 0
sigsetjmp0(sc) == [sc EXCEPT !.pc.at = "set_slow"]

\* slow = TRUE
set_slow(sc) == [sc EXCEPT !.slow = TRUE, !.pc.at = "syscall"]

\* the system call returns r, with errno e when r is -1; write in writeall
\* goes round the loop when it took some bytes
syscall_done(sc, r, e) ==
    IF sc.pc.fn = "writeall"
    THEN IF r <= 0 THEN [sc EXCEPT !.pc.at = "clear", !.pc.done = TRUE]
         ELSE [sc EXCEPT !.pc.at = "test", !.pc.remain = @ - r]
    ELSE [sc EXCEPT !.pc.at = "clear", !.pc.r = r, !.pc.done = TRUE, !.pc.res = r,
                    !.pc.errno = IF r = -1 THEN e ELSE @]

\* a plausible slip: the branch that siglongjmp arrives at returns at once
jumped_return(sc) ==
    IF sc.pc.fn = "writeall" THEN [sc EXCEPT !.pc.at = "sigchk", !.pc.jumped = TRUE]
    ELSE [sc EXCEPT !.pc.at = "return", !.pc.r = -1, !.pc.errno = EINTR,
                    !.pc.jumped = TRUE]

\* sigsetjmp returns non-zero, after siglongjmp: errno = EINTR and r = -1 in
\* rc_read and rc_wait, break in writeall
jumped(sc) ==
    IF sc.pc.fn = "writeall" THEN [sc EXCEPT !.pc.at = "clear", !.pc.jumped = TRUE]
    ELSE [sc EXCEPT !.pc.at = "clear", !.pc.r = -1, !.pc.errno = EINTR,
                    !.pc.jumped = TRUE]

\* slow = FALSE
clear_slow(sc) ==
    [sc EXCEPT !.slow = FALSE,
               !.pc.at = IF sc.pc.fn = "writeall" THEN "sigchk" ELSE "return"]

\* the signal handler: it notes the signal for the next sigchk, and jumps
\* back into the slow call when slow is set
catcher(sc) ==
    Bind([sc EXCEPT !.caught = TRUE], LAMBDA s1 :
        IF s1.slow THEN jumped(s1) ELSE s1)

\* the state of the slow calls now
Sc == [slow |-> slow, caught |-> caught, pc |-> slowpc]

SlowCommit(sc) ==
    /\ slow' = sc.slow
    /\ caught' = sc.caught
    /\ slowpc' = sc.pc
    /\ UNCHANGED <<procvars, envvars>>

\* the evaluator calls one of the three
SlowEnterOp ==
    /\ slowpc.at = "out"
    /\ \E fn \in SlowFns, remain \in 0..MaxRemain :
          /\ fn # "writeall" => remain = 0
          /\ SlowCommit(slow_enter(Sc, fn, remain))
          /\ op' = [name |-> "enter", fn |-> fn]

WriteallTestOp ==
    /\ slowpc.at = "test"
    /\ SlowCommit(writeall_test(Sc))
    /\ op' = [name |-> "test"]

SigsetjmpOp ==
    /\ slowpc.at = "setjmp"
    /\ SlowCommit(sigsetjmp0(Sc))
    /\ op' = [name |-> "sigsetjmp"]

SetSlowOp ==
    /\ slowpc.at = "set_slow"
    /\ SlowCommit(set_slow(Sc))
    /\ op' = [name |-> "slow = TRUE"]

\* the kernel completes the call: read returns an error, end of file or a
\* byte, wait an error or a child, write an error, nothing or some bytes
SyscallDoneOp ==
    /\ slowpc.at = "syscall"
    /\ \E res \in {[r |-> -1, e |-> IF slowpc.fn = "rc_wait" THEN ECHILD ELSE EIO],
                   [r |-> 0, e |-> 0], [r |-> 1, e |-> 0], [r |-> 2, e |-> 0]} :
          /\ slowpc.fn = "rc_wait" => res.r # 0
          /\ slowpc.fn = "writeall" => res.r <= slowpc.remain
          /\ SlowCommit(syscall_done(Sc, res.r, res.e))
          /\ op' = [name |-> "syscall", r |-> res.r]

ClearSlowOp ==
    /\ slowpc.at = "clear"
    /\ SlowCommit(clear_slow(Sc))
    /\ op' = [name |-> "slow = FALSE"]

\* rc_read and rc_wait return r
SlowReturnOp ==
    /\ slowpc.at = "return"
    /\ SlowCommit([Sc EXCEPT !.pc = NoCall])
    /\ op' = [name |-> "return", fn |-> slowpc.fn, r |-> slowpc.r,
              errno |-> slowpc.errno, sig |-> slowpc.sig, jumped |-> slowpc.jumped,
              done |-> slowpc.done, res |-> slowpc.res]

\* sigchk at the end of writeall, and the evaluator's after the other two:
\* a caught signal is raised
SlowSigchkOp ==
    /\ slowpc.at = "sigchk" \/ (slowpc.at = "out" /\ caught)
    /\ SlowCommit([Sc EXCEPT !.pc = NoCall, !.caught = FALSE])
    /\ op' = [name |-> "sigchk", fn |-> slowpc.fn, raised |-> caught]

\* a signal arrives
SignalOp ==
    /\ SlowCommit([catcher(Sc) EXCEPT
                      !.pc = IF slowpc.at = "out" THEN @
                             ELSE [@ EXCEPT !.sig = @ \/ ~slowpc.done]])
    /\ op' = [name |-> "signal", at |-> slowpc.at, slow |-> slow]

NextSlow ==
    \/ SlowEnterOp
    \/ WriteallTestOp
    \/ SigsetjmpOp
    \/ SetSlowOp
    \/ SyscallDoneOp
    \/ ClearSlowOp
    \/ SlowReturnOp
    \/ SlowSigchkOp
    \/ SignalOp

SpecSlow == InitPlain /\ [][NextSlow]_vars

\* C21: slow is FALSE whenever control is outside rc_read, rc_wait and
\* writeall; each returns with slow FALSE, whether its system call completed
\* or a signal aborted it; an aborted rc_read or rc_wait returns -1 with
\* errno EINTR
C21_SlowFlag ==
    /\ slowpc.at \in {"out", "return", "sigchk"} => ~slow
    /\ (op.name = "return" /\ op.jumped) => (op.r = -1 /\ op.errno = EINTR)

\* rc_wait has returned after a signal aborted it
C21_Witness ==
    /\ op.name = "return" /\ op.fn = "rc_wait" /\ op.jumped
    /\ ~slow /\ slowpc.at = "out"


\* C22: a signal that arrives at any point between the entry to rc_read or
\* rc_wait and the completion of its system call makes the wrapper return
\* interrupted, and the shell is never in the system call while a signal
\* that arrived since the entry waits for the evaluator
C22_SignalAborts ==
    /\ (op.name = "return" /\ op.sig) => (op.jumped /\ op.r = -1 /\ op.errno = EINTR)
    /\ ~(slowpc.fn \in {"rc_read", "rc_wait"} /\ slowpc.at = "syscall" /\ slowpc.sig)

\* a signal that arrives while slow is set, before the call completed, does
\* make the wrapper return interrupted
SignalAbortsWhileSlow ==
    (op.name = "signal" /\ op.slow /\ slowpc.fn \in {"rc_read", "rc_wait"})
        => (slowpc.at = "clear" /\ slowpc.r = -1 /\ slowpc.errno = EINTR)


(***************************************************************************)
(* exec.c, the parent of a fork: the shell, interactive or not, runs       *)
(* commands and waits for them; the child ends in any of the ways below,   *)
(* and a signal is or is not caught by the time of sigchk().               *)
(***************************************************************************)
\* exit 0, exit 1, killed by SIGINT, killed by SIGSEGV with a core
ParentInputs ==
    [bok : {TRUE}, stat : {0, 256, SIGINT, 139}, sig : BOOLEAN, forkfail : {FALSE}]

InitParent ==
    /\ InitShell
    /\ dashee = FALSE /\ cond = FALSE
    /\ interactive \in BOOLEAN
    /\ creds = Creds
    /\ dashpee = FALSE
    /\ fs = [f \in {<<"/", "b", "/", "q">>} |-> Exe]
    /\ fp = <<>> /\ fsize = HASHSIZE /\ fused = 0
    /\ vp = PathSet /\ vsize = HASHSIZE /\ vused = 1
    /\ cp = <<>> /\ csize = HASHSIZE /\ cused = 0
    /\ env_dirty = TRUE
    /\ pfree = {}
    /\ ub = {}

\* exec(av, parent); stat is the status setstatus stored for the child, nl0
\* is nl_on_intr at the call, left says that control
\* came back to the shell, and raised that it did so by rc_raise
ExecWaitOp ==
    \E s \in {<<q_word>>, <<echo_word>>, <<s_word>>}, parent \in BOOLEAN,
       in \in ParentInputs, u \in UBs :
        \E x \in {exec(St(u), s, parent, in)} :
            /\ shell = "running"
            /\ InDrift(x.st.fused)
            /\ Commit(x.st)
            /\ op' = [name |-> "exec", stat |-> StatAt(x.st.a, 0), sig |-> in.sig,
                      nl0 |-> nl_on_intr, kind |-> x.g.kind,
                      left |-> x.st.run, raised |-> x.st.raised,
                      newline |-> \E k \in 1..Len(x.st.out) :
                                      x.st.out[k] = <<"newline">>]

NextParent ==
    \/ ExecWaitOp
    \/ QueueRedirOp
    \/ PushCmdargOp

SpecParent == InitParent /\ [][NextParent]_vars

\* C23: in the parent path of exec(), nl_on_intr is FALSE during the signal
\* check exactly when the child exited normally (an interactive shell prints
\* its newline for a caught signal exactly when the child did not), and
\* nl_on_intr is TRUE again once exec() is left, by a return or by an error
\* raised from the signal check
C23_NlOnIntr ==
    (op.name = "exec" /\ op.kind = "waited" /\ op.left)
        => /\ (interactive /\ op.sig) => (op.newline <=> ~WIFEXITED(op.stat))
           /\ nl_on_intr = TRUE

\* so it is after a return, and after a raise when nl_on_intr was not cleared
NlOnIntrReturn ==
    (op.name = "exec" /\ op.kind = "waited" /\ op.left /\ op.nl0)
        => /\ (interactive /\ op.sig) => (op.newline <=> ~WIFEXITED(op.stat))
           /\ (~op.raised \/ ~WIFEXITED(op.stat)) => nl_on_intr = TRUE
           /\ (op.raised /\ WIFEXITED(op.stat)) => nl_on_intr = FALSE


(***************************************************************************)
(* The three tables together: insertions and deletions of names in the     *)
(* function table, the variable table and the path cache, in any order.    *)
(* The empty name "" and "ba" hash to the same slot, 0.                    *)
(***************************************************************************)
\* the most insertions and deletions the shell makes
MaxTabOps == 4

Tables == {"fn", "var", "cmd"}

TabNames == {<<>>, <<"b", "a">>}

\* the number of operations so far
OpCount == IF "n" \in DOMAIN op THEN op.n ELSE 0

\* the k-th value the table t is given
TabValue(t, k) ==
    CASE t = "fn" -> IF k = 1 THEN <<"F">> ELSE <<"G">>
      [] t = "var" -> IF k = 1 THEN <<"A">> ELSE <<"B">>
      [] OTHER -> WordPtr(k)

\* the table t of the process state st, its size and its used count
TabOf(st, t) ==
    CASE t = "fn" -> [ht |-> st.fp, size |-> st.fsize, used |-> st.fused]
      [] t = "var" -> [ht |-> st.vp, size |-> st.vsize, used |-> st.vused]
      [] OTHER -> [ht |-> st.cp, size |-> st.csize, used |-> st.cused]

\* the insertion of s with the k-th value: get_fn_place, a non-stacking
\* get_var_place, set_cmd_path
tab_insert(st, t, s, k) ==
    CASE t = "fn" -> get_fn_place(st, s, TabValue(t, k))
      [] t = "var" -> get_var_place(st, s, FALSE, TabValue(t, k)[1])
      [] OTHER -> set_cmd_path(st, s, TabValue(t, k))

tab_delete(st, t, s) ==
    CASE t = "fn" -> delete_fn(st, s)
      [] t = "var" -> delete_var(st, s, FALSE)
      [] OTHER -> delete_cmd(st, s)

\* the tables stay within the bounds of the model
TabBounded(st) ==
    /\ \A t \in Tables : Cardinality(Dead(TabOf(st, t).ht)) <= MaxDead
    /\ st.fused >= -MaxDrift

TabInsertOp(Ts, Max) ==
    \E t \in Ts, s \in TabNames, k \in 1..2, u \in UBs :
        \E st \in {tab_insert(St(u), t, s, k)} :
            /\ shell = "running"
            /\ OpCount < Max
            /\ TabBounded(st)
            /\ Commit(st)
            /\ op' = [name |-> "insert", t |-> t, s |-> s, k |-> k, n |-> OpCount + 1]

TabDeleteOp(Ts, Max) ==
    \E t \in Ts, s \in TabNames, u \in UBs :
        \E st \in {tab_delete(St(u), t, s)} :
            /\ shell = "running"
            /\ OpCount < Max
            /\ TabBounded(st)
            /\ Commit(st)
            /\ op' = [name |-> "delete", t |-> t, s |-> s, n |-> OpCount + 1]

NextTables ==
    \/ TabInsertOp(Tables, MaxTabOps)
    \/ TabDeleteOp(Tables, MaxTabOps)

SpecTables == InitPlain /\ [][NextTables]_vars


\* the table t as it is now
TabNow(t) == TabOf(St0, t)

\* the slot in which the name s is live in the table T
LiveSlot(T, s) == CHOOSE h \in Live(T.ht) : T.ht[h].name = s

IsLive(T, s) == \E h \in Live(T.ht) : T.ht[h].name = s

\* the deletion of the live name s from the table t in this step follows the
\* rule: the slot is emptied and the used count of t goes down by one when
\* the next slot was empty, the slot becomes a tombstone and the count stays
\* otherwise; the counts of the other tables stay
DeletionRule(t, s) ==
    LET h == LiveSlot(TabNow(t), s)
    IN  /\ IF SlotNull(TabNow(t).ht, (h + 1) % TabNow(t).size)
           THEN SlotNull(TabNow(t)'.ht, h) /\ TabNow(t)'.used = TabNow(t).used - 1
           ELSE SlotDead(TabNow(t)'.ht, h) /\ TabNow(t)'.used = TabNow(t).used
        /\ \A t2 \in Tables \ {t} : TabNow(t2)'.used = TabNow(t2).used

\* this step is a deletion of a live name from t that the shell survives
DeletesLive(t, s) ==
    /\ op'.name = "delete" /\ op'.t = t /\ op'.s = s
    /\ shell' = "running"
    /\ IsLive(TabNow(t), s)

\* C24: in each of the three tables, deleting a present name empties its slot
\* and decrements that table's used count when the next slot (cyclically) is
\* empty, and leaves a tombstone and the count otherwise; the used counts of
\* the other two tables do not change
C24_DeletionRule ==
    [][\A t \in Tables, s \in TabNames : DeletesLive(t, s) => DeletionRule(t, s)]_vars

\* delete_fn and delete_var do follow the rule
DeletionRuleFnVar ==
    [][\A t \in {"fn", "var"}, s \in TabNames :
           DeletesLive(t, s) => DeletionRule(t, s)]_vars


\* lookup(s, t) in the table t as it is now
TabLookup(t, s) == lookup(s, TabNow(t).ht, TabNow(t).size)

\* what the finite map t holds for s after this step: the value stored by an
\* insertion of s, nothing after a deletion of s, what it held otherwise
MapAfter(t, s) ==
    IF op'.t = t /\ op'.s = s
    THEN IF op'.name = "insert" THEN TabValue(t, op'.k) ELSE NULL
    ELSE TabLookup(t, s)

\* this step is an insertion or a deletion that the shell survives
TableStep == op'.name \in {"insert", "delete"} /\ shell' = "running"

\* C25: each table is a finite map: after every insertion and deletion,
\* lookup of a name returns the value most recently stored for it if it was
\* inserted and not deleted since, and nothing otherwise, for every name,
\* the empty string included, with tombstones and collapsed slots on its
\* probe path
C25_FiniteMap ==
    [][TableStep => \A t \in Tables, s \in TabNames : TabLookup(t, s)' = MapAfter(t, s)]_vars

\* the variable table is a finite map as long as the shell survives
FiniteMapVar ==
    [][TableStep => \A s \in TabNames : TabLookup("var", s)' = MapAfter("var", s)]_vars

\* the function table is a finite map for a name that is not empty
FiniteMapFnNonEmpty ==
    [][TableStep => TabLookup("fn", <<"b", "a">>)' = MapAfter("fn", <<"b", "a">>)]_vars


(***************************************************************************)
(* The rehash policy.  The function and the variable table start with      *)
(* MaxFill names, inserted one after the other by get_fn_place and         *)
(* get_var_place, and the operations on the tables go on from there.       *)
(***************************************************************************)
\* the process state of a shell that has just started
StStart ==
    [a |-> <<>>, n |-> 1, out |-> <<>>, run |-> TRUE, code |-> -1,
     raised |-> FALSE, how |-> "exited", u |-> NoUB, rc_pid |-> "self",
     fp |-> <<>>, fsize |-> HASHSIZE, fused |-> 0,
     vp |-> <<>>, vsize |-> HASHSIZE, vused |-> 0,
     cp |-> <<>>, csize |-> HASHSIZE, cused |-> 0,
     env_dirty |-> TRUE, env |-> <<>>, bozosize |-> 0,
     maybeexport |-> {}, pfree |-> {}, ub |-> {},
     redirq |-> <<>>, fds |-> {}, cmdarg |-> FALSE,
     nl_on_intr |-> TRUE, sigs |-> "shell"]

\* the names lo .. hi inserted into the table t, one after the other
RECURSIVE Fill(_, _, _, _)
Fill(st, t, lo, hi) ==
    IF lo > hi THEN st
    ELSE Bind(tab_insert(st, t, FillName(lo), 1), LAMBDA st1 : Fill(st1, t, lo + 1, hi))

HalfFill == MaxFill \div 2

FilledFnHalf == Fill(StStart, "fn", 1, HalfFill)

FilledFn == Bind(FilledFnHalf, LAMBDA st : Fill(st, "fn", HalfFill + 1, MaxFill))

FilledVarHalf == Bind(FilledFn, LAMBDA st : Fill(st, "var", 1, HalfFill))

Filled == Bind(FilledVarHalf, LAMBDA st : Fill(st, "var", HalfFill + 1, MaxFill))

InitFilled ==
    /\ InitShell
    /\ dashee = FALSE /\ cond = FALSE /\ interactive = FALSE
    /\ creds = Creds
    /\ dashpee = FALSE
    /\ fs = <<>>
    /\ \E st \in {Filled} :
           /\ fp = st.fp /\ fsize = st.fsize /\ fused = st.fused
           /\ vp = st.vp /\ vsize = st.vsize /\ vused = st.vused
    /\ cp = <<>> /\ csize = HASHSIZE /\ cused = 0
    /\ env_dirty = TRUE
    /\ pfree = {}
    /\ ub = {}

\* the number of operations on the filled tables
MaxFillOps == 3

FilledTables == {"fn", "var"}

NextRehash ==
    \/ TabInsertOp(FilledTables, MaxFillOps)
    \/ TabDeleteOp(FilledTables, MaxFillOps)

SpecRehash == InitFilled /\ [][NextRehash]_vars

\* the live entries of a table: names and values
LiveMap(ht) == {<<ht[h].name, ht[h].p>> : h \in Live(ht)}

\* the table t is doubled in this step
Doubled(t) == TabNow(t)'.size = 2 * TabNow(t).size

\* this step is an insertion of s into t that the shell survives
Inserts(t, s) ==
    /\ op'.name = "insert" /\ op'.t = t /\ op'.s = s
    /\ shell' = "running"

\* the doubled table holds the live entries of the old one and the entry
\* just inserted, without a tombstone, and its used count is their number
DoubledContents(t, s) ==
    /\ LiveMap(TabNow(t)'.ht) = LiveMap(TabNow(t).ht) \cup {<<s, TabValue(t, op'.k)>>}
    /\ Dead(TabNow(t)'.ht) = {}
    /\ TabNow(t)'.used = Cardinality(Live(TabNow(t)'.ht))

\* the capacity is HASHSIZE doubled some times
Capacity(t) == TabNow(t).size \in {HASHSIZE, 2 * HASHSIZE, 4 * HASHSIZE}

\* C26: a table is doubled on the insertion of a new name exactly when its
\* used count is greater than size/2; the new table has twice the capacity,
\* holds exactly the live entries of the old one with no tombstone, and its
\* used count is the number of live entries
C26_RehashPolicy ==
    [][\A t \in FilledTables, s \in TabNames :
           (Inserts(t, s) /\ ~IsLive(TabNow(t), s)) =>
               /\ Doubled(t) <=> 2 * TabNow(t).used > TabNow(t).size
               /\ Doubled(t) => DoubledContents(t, s)
               /\ Capacity(t)']_vars

\* C26 as the code has it: the function table and the variable table are
\* doubled by an insertion exactly when the probe for the name ends at an
\* empty slot and the used count is at least size/2; the new table has twice
\* the capacity, holds exactly the live entries of the old one and the new
\* entry with no tombstone, and its used count is the number of live entries
C26_RehashAtHalf ==
    [][\A t \in FilledTables, s \in TabNames :
           Inserts(t, s) =>
               /\ Doubled(t) <=>
                      /\ SlotNull(TabNow(t).ht, find(s, TabNow(t).ht, TabNow(t).size))
                      /\ 2 * TabNow(t).used >= TabNow(t).size
               /\ Doubled(t) => DoubledContents(t, s)
               /\ Capacity(t)']_vars

\* the function table has been doubled by the insertion of "ba" into a
\* table of which exactly half was used
C26_Witness ==
    /\ op.name = "insert" /\ op.t = "fn" /\ op.s = <<"b", "a">>
    /\ shell = "running"
    /\ fsize = 2 * HASHSIZE
    /\ fused = HASHSIZE \div 2 + 1
    /\ fused = Cardinality(Live(fp))
    /\ Dead(fp) = {}


(***************************************************************************)
(* exec.c: rc_execve, the #! fallback.  A file is the sequence of its      *)
(* bytes; pb[i] of the code is pb[i + 1] here.  The argument array is mem, *)
(* with the two free slots in front of it, and av is the index of its      *)
(* first element.                                                          *)
(***************************************************************************)
\* the longest text after #! in the files of the model
MaxBody == 5

\* sizeof pb
PbSize == 256

Blank == {" ", "\t"}

\* the files: every file of at most two bytes, and #! followed by blanks,
\* newlines and letters
ScriptFiles ==
    {<<>>} \cup SeqsUpTo({"#", "!", " ", "\t", "\n", "x"}, 2)
    \cup {<<"#", "!">> \o b : b \in SeqsUpTo({" ", "\t", "\n", "x"}, MaxBody)}

\* the argument array rc_execve is given: two free slots, then av[0], av[1]
ExecveMem == <<<<"free">>, <<"free">>, <<"a", "0">>, <<"a", "1">>>>

ExecveAv == 3

ExecvePath == <<"p">>

\* for (; i < len && (pb[i] == ' ' || pb[i] == '\t'); i++)
RECURSIVE skip_blank(_, _, _)
skip_blank(pb, len, i) ==
    IF i < len /\ pb[i + 1] \in Blank THEN skip_blank(pb, len, i + 1) ELSE i

\* for (; i < len && pb[i] != ' ' && pb[i] != '\t' && pb[i] != '\n'; i++)
RECURSIVE skip_arg(_, _, _)
skip_arg(pb, len, i) ==
    IF i < len /\ pb[i + 1] \notin Blank \cup {"\n"} THEN skip_arg(pb, len, i + 1) ELSE i

\* the string at pb + i once pb[j] has been set to '\0'
PbString(pb, i, j) == SubSeq(pb, i + 1, j)

\* what rc_execve leaves: the return value (0 stands for the execve that
\* succeeds and does not return), errno, the argument array, whether the file was opened
\* and whether execve was tried again
ExecveResult(ret, errno, mem, av, opened, retried, undef) ==
    [ret |-> ret, errno |-> errno, mem |-> mem, av |-> av, opened |-> opened,
     retried |-> retried, ub |-> undef]

\* fail: errno = ENOEXEC; return -1
execve_fail(mem, av, opened) ==
    ExecveResult(-1, "ENOEXEC", mem, av, opened, FALSE, FALSE)

\* *av = path; if (!noarg) *--av = pb + snd; *--av = pb + fst; execve(*av, av, ev)
execve_retry(path, mem, av, i, noarg, interp, arg, undef) ==
    LET mem1 == [mem EXCEPT ![av] = path]
        mem2 == IF noarg THEN mem1 ELSE [mem1 EXCEPT ![av - 1] = arg]
        av2 == IF noarg THEN av - 1 ELSE av - 2
        mem3 == [mem2 EXCEPT ![av2] = interp]
    IN  IF interp = <<>>     \* no file has the empty name
        THEN ExecveResult(-1, "ENOENT", mem3, av2, TRUE, TRUE, undef)
        ELSE IF i.exec2 = "" THEN ExecveResult(0, "", mem3, av2, TRUE, TRUE, undef)
        ELSE ExecveResult(-1, i.exec2, mem3, av2, TRUE, TRUE, undef)

\* rc_execve from the first loop on, for a buffer that begins with #!
rc_execve_scan(path, mem, av, pb, len, i) ==
    LET fst == skip_blank(pb, len, 2)
        snd == skip_arg(pb, len, fst)
        snd2 == skip_blank(pb, len, snd + 1)
        end == skip_arg(pb, len, snd2)
        end2 == skip_blank(pb, len, end + 1)
    IN  IF fst = len THEN execve_fail(mem, av, TRUE)
        ELSE IF snd = len THEN execve_fail(mem, av, TRUE)
        ELSE IF pb[snd + 1] = "\n"
             THEN execve_retry(path, mem, av, i, TRUE, PbString(pb, fst, snd), <<>>, FALSE)
        ELSE IF snd2 = len THEN execve_fail(mem, av, TRUE)
        ELSE IF pb[snd2 + 1] = "\n"
             THEN execve_retry(path, mem, av, i, TRUE, PbString(pb, fst, snd), <<>>, FALSE)
        ELSE IF end = len THEN execve_fail(mem, av, TRUE)
        ELSE IF pb[end + 1] = "\n"
             THEN execve_retry(path, mem, av, i, FALSE, PbString(pb, fst, snd),
                               PbString(pb, snd2, end), FALSE)
        ELSE IF end2 = len \/ pb[end2 + 1] # "\n" THEN execve_fail(mem, av, TRUE)
        ELSE execve_retry(path, mem, av, i, FALSE, PbString(pb, fst, snd),
                          PbString(pb, snd2, end), FALSE)

\* rc_execve(path, av, ev) on the file at path; i says how the system calls
\* turn out: errno of the first execve, whether open and read succeed, errno
\* of the second execve ("" when it succeeds), and what the byte of pb that
\* read did not fill happens to hold
rc_execve(path, mem, av, file, i) ==
    LET len == IF ~i.readok THEN -1
               ELSE IF Len(file) < PbSize THEN Len(file) ELSE PbSize
        pb == SubSeq(file, 1, len)
    IN  IF i.errno1 # "ENOEXEC"
        THEN ExecveResult(-1, i.errno1, mem, av, FALSE, FALSE, FALSE)
        ELSE IF ~i.openok THEN execve_fail(mem, av, FALSE)
        ELSE IF len <= 0 THEN execve_fail(mem, av, TRUE)
        ELSE IF pb[1] # "#" THEN execve_fail(mem, av, TRUE)
        ELSE IF len = 1      \* pb[1] and what follows were never written
             THEN IF i.garbage
                  THEN execve_retry(path, mem, av, i, TRUE, <<>>, <<>>, TRUE)
                  ELSE [execve_fail(mem, av, TRUE) EXCEPT !.ub = TRUE]
        ELSE IF pb[2] # "!" THEN execve_fail(mem, av, TRUE)
        ELSE rc_execve_scan(path, mem, av, pb, len, i)

\* the indices of pb the scan examines or overwrites, for a buffer that
\* begins with #!: each loop test reads pb[k] after k < len, each giveupif
\* ends the scan, and what follows it reads or writes pb at the index reached
scan_touched(pb, len) ==
    LET fst == skip_blank(pb, len, 2)
        snd == skip_arg(pb, len, fst)
        snd2 == skip_blank(pb, len, snd + 1)
        end == skip_arg(pb, len, snd2)
        end2 == skip_blank(pb, len, end + 1)
        upto(a, b) == {k \in a..b : k < len}
    IN  upto(2, fst) \cup
        IF fst = len THEN {}
        ELSE upto(fst, snd) \cup
        IF snd = len THEN {}
        ELSE {snd} \cup
        IF pb[snd + 1] = "\n" THEN {}
        ELSE upto(snd + 1, snd2) \cup
        IF snd2 = len THEN {}
        ELSE {snd2} \cup
        IF pb[snd2 + 1] = "\n" THEN {}
        ELSE upto(snd2, end) \cup
        IF end = len THEN {}
        ELSE {end} \cup
        IF pb[end + 1] = "\n" THEN {}
        ELSE upto(end + 1, end2) \cup
        IF end2 = len THEN {} ELSE {end2}

\* the indices of pb that rc_execve examines or overwrites
pb_touched(file, i) ==
    LET len == IF ~i.readok THEN -1
               ELSE IF Len(file) < PbSize THEN Len(file) ELSE PbSize
        pb == SubSeq(file, 1, len)
    IN  IF i.errno1 # "ENOEXEC" \/ ~i.openok \/ len <= 0 THEN {}
        ELSE IF pb[1] # "#" THEN {0}
        ELSE IF len = 1      \* pb[1] is read all the same; when it happens to
                             \* hold '!', pb[2] is read and overwritten
             THEN IF i.garbage THEN {0, 1, 2} ELSE {0, 1}
        ELSE IF pb[2] # "!" THEN {0, 1}
        ELSE {0, 1} \cup scan_touched(pb, len)

\* how the system calls of rc_execve turn out
ExecveInputs ==
    {[errno1 |-> "EACCES", openok |-> TRUE, readok |-> TRUE, exec2 |-> "ENOENT",
      garbage |-> FALSE],
     [errno1 |-> "ENOEXEC", openok |-> FALSE, readok |-> TRUE, exec2 |-> "ENOENT",
      garbage |-> FALSE],
     [errno1 |-> "ENOEXEC", openok |-> TRUE, readok |-> FALSE, exec2 |-> "ENOENT",
      garbage |-> FALSE]}
    \cup [errno1 : {"ENOEXEC"}, openok : {TRUE}, readok : {TRUE},
          exec2 : {"", "ENOENT"}, garbage : BOOLEAN]

RcExecveOp ==
    /\ op.name = "init"
    /\ \E file \in ScriptFiles, i \in ExecveInputs :
        /\ op' = [name |-> "rc_execve", file |-> file, in |-> i,
                  r |-> rc_execve(ExecvePath, ExecveMem, ExecveAv, file, i),
                  touched |-> pb_touched(file, i)]
        /\ UNCHANGED <<procvars, envvars, sysvars>>

NextExecve == RcExecveOp

SpecExecve == InitPlain /\ [][NextExecve]_vars

\* the first line of a file that begins with #!, without the #! and the
\* newline; <<"no line">> when there is no newline
FirstLine(file) ==
    IF \E k \in 3..Len(file) : file[k] = "\n"
    THEN SubSeq(file, 3, (CHOOSE k \in 3..Len(file) :
                             file[k] = "\n" /\ \A j \in 3..(k - 1) : file[j] # "\n") - 1)
    ELSE <<"no line">>

\* where the tokens of a line start and end
TokenStarts(l) == {k \in 1..Len(l) : l[k] \notin Blank /\ (k = 1 \/ l[k - 1] \in Blank)}

TokenEnd(l, k) ==
    CHOOSE e \in k..Len(l) :
        /\ \A j \in k..e : l[j] \notin Blank
        /\ (e = Len(l) \/ l[e + 1] \in Blank)

\* the tokens of a line, in order
RECURSIVE TokensFrom(_, _)
TokensFrom(l, k) ==
    IF \A j \in TokenStarts(l) : j < k THEN <<>>
    ELSE LET s == CHOOSE j \in TokenStarts(l) :
                      j >= k /\ \A j2 \in TokenStarts(l) : j2 >= k => j <= j2
         IN  <<SubSeq(l, s, TokenEnd(l, s))>> \o TokensFrom(l, TokenEnd(l, s) + 1)

Tokens(l) == TokensFrom(l, 1)

\* #!, blanks, an interpreter, perhaps one argument, blanks, a newline
WellFormedScript(file) ==
    /\ Len(file) >= 2 /\ file[1] = "#" /\ file[2] = "!"
    /\ FirstLine(file) # <<"no line">>
    /\ Len(Tokens(FirstLine(file))) \in {1, 2}

\* the argument array of the retry: the tokens, the path, the arguments
\* from 1 on
RetryArgv(file) ==
    Tokens(FirstLine(file)) \o <<ExecvePath>> \o SubSeq(ExecveMem, ExecveAv + 1, Len(ExecveMem))

\* the result of rc_execve is what the fallback rule says for the file
FallbackRule ==
    IF op.in.errno1 # "ENOEXEC"
    THEN op.r.ret = -1 /\ ~op.r.opened /\ op.r.mem = ExecveMem
    ELSE IF op.in.openok /\ op.in.readok /\ WellFormedScript(op.file)
    THEN /\ op.r.retried
         /\ op.r.av \in {ExecveAv - 1, ExecveAv - 2}
         /\ SubSeq(op.r.mem, op.r.av, Len(op.r.mem)) = RetryArgv(op.file)
         /\ \A k \in 1..(op.r.av - 1) : op.r.mem[k] = ExecveMem[k]
    ELSE /\ op.r.ret = -1 /\ op.r.errno = "ENOEXEC"
         /\ ~op.r.retried
         /\ op.r.mem = ExecveMem

\* C27: after execve fails with ENOEXEC, for a file of #!, blanks, an
\* interpreter, optionally one argument, blanks and a newline, rc_execve
\* retries with argv = (interpreter, [argument], path, arguments 1..) in at
\* most the two slots before av; for every other content it returns -1 with
\* errno ENOEXEC and argv unmodified; when the first execve fails with
\* another errno it returns -1 without opening the file
C27_ExecveFallback == op.name = "rc_execve" => FallbackRule

\* the rule holds for every file that read fills at least two bytes of and
\* whose first line, when it has one, names an interpreter
FallbackWithInterpreter ==
    (/\ op.name = "rc_execve"
     /\ Len(op.file) # 1
     /\ (FirstLine(op.file) # <<"no line">> => Tokens(FirstLine(op.file)) # <<>>))
        => FallbackRule

\* a script with an interpreter and an argument has been retried
ExecveRetried ==
    /\ op.name = "rc_execve" /\ op.r.retried /\ op.r.av = ExecveAv - 2
    /\ WellFormedScript(op.file)


\* the dispositions of the calling process are what they were before exec
SigsKept == sigs = op.sigs0

\* C28: exec restores the default signal dispositions if and only if a fork
\* really took place: in the child of the fork; when the command runs
\* in-place in the calling process, with or without the parent flag, the
\* dispositions are left unchanged
C28_SigDefaultsIffFork ==
    op.name = "exec" =>
        IF op.kind = "waited" THEN op.childsigs = "default" /\ SigsKept
        ELSE SigsKept

\* C28 as the code has it: the dispositions are restored in the process that
\* runs the command unless exec returns in it: in the child of a fork, and in
\* the calling process when the command runs in-place without the parent
\* flag; they are left unchanged in-place with the parent flag, and when
\* exec ends before the switch
C28_SigDefaultsUnlessReturning ==
    op.name = "exec" =>
        CASE op.kind = "waited" -> op.childsigs = "default" /\ SigsKept
          [] op.kind = "in place" ->
                 IF op.parent THEN SigsKept ELSE sigs = "default"
          [] OTHER -> SigsKept

\* a command has run in-place without the parent flag in a process whose
\* dispositions were the shell's
C28_Witness ==
    /\ op.name = "exec" /\ op.kind = "in place" /\ ~op.parent
    /\ op.sigs0 = "shell" /\ sigs = "default"


(***************************************************************************)
(* Probe termination: the operations on the function table and the path    *)
(* cache, from the filled tables.                                          *)
(***************************************************************************)
MaxProbeOps == 4

ProbeTables == {"fn", "cmd"}

NextProbe ==
    \/ TabInsertOp(ProbeTables, MaxProbeOps)
    \/ TabDeleteOp(ProbeTables, MaxProbeOps)

SpecProbe == InitFilled /\ [][NextProbe]_vars

\* the slots of the table t that are not empty: live ones and tombstones
NonNull(t) == Cardinality(DOMAIN TabNow(t).ht)

\* the table t has an empty slot, not more than half of it is in use, and
\* find ends for the names of the model
ProbeEnds(t) ==
    /\ NonNull(t) < TabNow(t).size
    /\ 2 * NonNull(t) <= TabNow(t).size
    /\ \A s \in TabNames : find(s, TabNow(t).ht, TabNow(t).size) # -1

\* C29: in every reachable state each of the three tables has at least one
\* empty slot (live plus tombstone slots never exceed half the capacity), so
\* find terminates for every name after any interleaving of insertions and
\* deletions on the three tables
C29_ProbeTermination == \A t \in Tables : ProbeEnds(t)

\* the variable table and the path cache do keep half of their slots empty
ProbeEndsVarCmd == ProbeEnds("var") /\ ProbeEnds("cmd")

\* so does the function table as long as nothing was deleted from the path
\* cache
ProbeEndsFnNoDelete == fused = Cardinality(DOMAIN fp) => ProbeEnds("fn")


\* this step frees nothing that is not the path cache's own: no word of the
\* list of $path, and no block the allocator did not hand out
FreesOnlyOwn == pfree' \subseteq pfree /\ ("invalid free" \in ub' => "invalid free" \in ub)

\* C30: set_cmd_path, delete_cmd and reset_cmdtab release only command-name
\* strings that the cache allocated itself: none of them frees a directory
\* string borrowed from the list of the path variable or the tombstone
\* sentinel, so the value of the path variable is unchanged by every
\* path-cache operation
C30_CacheOwnership ==
    [][op'.name \in {"set_cmd_path", "delete_cmd", "reset_cmdtab"} => FreesOnlyOwn]_vars

\* set_cmd_path frees nothing, and reset_cmdtab frees only names when the
\* cache holds no tombstone
OwnershipWithoutDelete ==
    [][(\/ op'.name = "set_cmd_path"
        \/ op'.name = "reset_cmdtab" /\ Dead(cp) = {})
           => (pfree' = pfree /\ FreesOnlyOwn)]_vars


\* the system call of the wrapper that returned had completed: it had
\* consumed bytes from the descriptor, or reaped a child
Completed == op.done /\ op.res > 0

\* C31: no result is lost: wherever a signal is delivered, when the system
\* call of rc_read or rc_wait has completed the wrapper returns the result
\* of the system call, and it reports interrupted (-1, EINTR) only when the
\* system call did not complete
C31_NoLostResult ==
    (op.name = "return" /\ op.fn \in {"rc_read", "rc_wait"}) =>
        /\ Completed => op.r = op.res
        /\ (op.r = -1 /\ op.errno = EINTR) => ~Completed

\* the result of a completed system call is lost only to a signal delivered
\* between the return of the system call and slow = FALSE
LostOnlyBeforeClear ==
    [][(/\ slowpc.at # "out" /\ slowpc'.at # "out"
        /\ slowpc.fn \in {"rc_read", "rc_wait"}
        /\ slowpc.done /\ ~slowpc.jumped /\ slowpc'.jumped)
           => (slowpc.at = "clear" /\ slow /\ op'.name = "signal")]_vars

\* a wrapper whose system call completed and that no signal made jump
\* returns what the system call returned
ResultKeptWithoutJump ==
    (op.name = "return" /\ ~op.jumped) => (op.done /\ op.r = op.res)


\* exec was called with an exec prefix in front of a command word
ExecPrefixed == op.name = "exec" /\ op.saw_exec /\ op.rest # <<>>

\* the calling process did not return from exec: the command replaced it, or
\* it exited, with 1 when no file was found for the command word
ExecFinal ==
    /\ shell \in {"replaced", "exited"}
    /\ (op.kind = "unresolved" /\ shell = "exited") => exitcode = 1

\* C32: the exec prefix is final: when an exec prefix was seen and a command
\* word remains, the process that called exec never returns from it to go on
\* interpreting commands: it is replaced by the command or it exits, whether
\* or not command-argument fifos are outstanding
C32_ExecFinal == ExecPrefixed => ExecFinal

\* without outstanding fifos the exec prefix is final
ExecFinalNoFifos == (ExecPrefixed /\ ~op.fifos) => ExecFinal

\* with outstanding fifos exec forks, and the calling process goes on unless
\* the fork fails
ExecFifosForks == (ExecPrefixed /\ op.fifos /\ op.kind # "unresolved") => op.didfork


\* exec was called with the parent flag and no exec prefix was seen
ParentMode == op.name = "exec" /\ op.parent0 /\ ~op.saw_exec

\* C33: the shell survives a parent-mode command: when exec is called with
\* the parent flag and no exec prefix is seen, the calling process is never
\* replaced by execve and never exits on the child path (the path taken
\* without a fork, kind "in place"); a program is run and the child path's
\* exit is reached only in a forked child, and the in-place return happens
\* only for a builtin or function with an empty redirection queue
C33_ShellSurvives ==
    ParentMode =>
        /\ shell # "replaced"
        /\ op.kind = "in place" => shell # "exited"
        /\ op.what = <<"program">> => (op.didfork /\ op.where = "child")
        /\ op.kind = "in place" => (op.b # NULL /\ ~op.redirs /\ ~op.fifos)

\* a builtin has run in place in parent mode and exec has returned
C33_Witness ==
    /\ ParentMode /\ op.kind = "in place" /\ op.b # NULL
    /\ shell = "running"

\* a program has run in a forked child in parent mode and the shell goes on
ParentModeForked ==
    /\ ParentMode /\ op.kind = "waited" /\ op.what = <<"program">>
    /\ shell = "running"


(***************************************************************************)
(* The status vector at its limit: argument lists as long as the vector,   *)
(* one longer, and as long as the vector has bytes.                        *)
(***************************************************************************)
MaxManyOps == 2

\* argument counts around the number of slots of the vector
ManyCounts == {NSTATUSES - 1, NSTATUSES, NSTATUSES + 1}

\* the cells outside statuses[0..511] that hold a value
Outside(a) == {k \in DOMAIN a : k < 0 \/ k >= NSTATUSES}

\* a store outside the array is undefined behaviour; the cells stay in the
\* model as the memory next to the array
Overrun(st) ==
    IF Outside(st.a) = {} THEN st ELSE undefined(st, "statuses overrun")

ManyOp(name, count, st) ==
    [name |-> name, count |-> count, done |-> st.run /\ ~st.raised,
     n |-> OpCount + 1, before |-> statuses]

\* wait with count arguments of one kind
WaitManyOp ==
    /\ shell = "running"
    /\ OpCount < MaxManyOps
    /\ \E count \in ManyCounts \cup {SizeofStatuses}, x \in WaitCases :
        \E xs \in {[k \in 1..count |-> x]} :
        \E st \in {setwaitstatus(St0, [k \in 1..count |-> x.arg], xs, "wait")} :
            /\ Commit(Overrun(st))
            /\ op' = ManyOp("setwaitstatus", count, st)

\* status = (w w ... w) with count words
SSetManyOp ==
    /\ shell = "running"
    /\ OpCount < MaxManyOps
    /\ \E count \in ManyCounts, w \in StatusWords :
        \E st \in {ssetstatus(St0, [k \in 1..count |-> SSetWords[w]])} :
            /\ Commit(Overrun(st))
            /\ op' = ManyOp("ssetstatus", count, st)

\* a pipeline of count commands, which the caller keeps within its own
\* array of NSTATUSES statuses
SetPipeManyOp ==
    /\ shell = "running"
    /\ OpCount < MaxManyOps
    /\ \E count \in {NSTATUSES - 1, NSTATUSES}, s \in RawStatuses :
        \E st \in {setpipestatus(St0, [k \in 1..count |-> s])} :
            /\ Commit(Overrun(st))
            /\ op' = ManyOp("setpipestatus", count, st)

NextMany ==
    \/ WaitManyOp
    \/ SSetManyOp
    \/ SetPipeManyOp

SpecMany == InitPlain /\ [][NextMany]_vars

\* one of the operations above has run
ManyRan == op.name \in {"setwaitstatus", "ssetstatus", "setpipestatus"}

\* C34: status vector bounds: every write to the status vector by
\* setwaitstatus, ssetstatus and setpipestatus targets an index in 0..511;
\* setwaitstatus called with more arguments than the vector has slots
\* stores no status, reports "too many arguments" and sets a false status.
C34_StatusBounds ==
    ManyRan =>
        /\ Outside(statuses) = {}
        /\ (op.name = "setwaitstatus" /\ op.count > NSTATUSES) =>
              /\ errout = <<<<"too many arguments to", "wait">>>>
              /\ pipelength = 1
              /\ statuses = StatPut(op.before, 0, STATUS1)

\* with no more arguments than the vector has slots every store is inside it
BoundsUpToSlots ==
    (ManyRan /\ op.count <= NSTATUSES) =>
        \A k \in Outside(statuses) : StatAt(statuses, k) = StatAt(op.before, k)

\* with as many arguments as the vector has bytes wait refuses
RefusedAtBytes ==
    (ManyRan /\ op.name = "setwaitstatus" /\ op.count >= SizeofStatuses) =>
        /\ errout = <<<<"too many arguments to", "wait">>>>
        /\ pipelength = 1
        /\ statuses = StatPut(op.before, 0, STATUS1)


\* the length read returns for the file of the last rc_execve
ReadLen == IF Len(op.file) < PbSize THEN Len(op.file) ELSE PbSize

\* rc_execve has read at least one byte of the file
ExecveRead ==
    /\ op.name = "rc_execve"
    /\ op.in.errno1 = "ENOEXEC" /\ op.in.openok /\ op.in.readok
    /\ ReadLen >= 1

\* C35: rc_execve header parsing stays inside the data read: for every read
\* length len in 1..256 and every file content, each byte of the 256-byte
\* buffer that the parser examines or overwrites has an index smaller than
\* len.
C35_ParseInsideRead == ExecveRead => \A k \in op.touched : k < ReadLen

\* with at least two bytes read the parser stays inside them
InsideReadFromTwo ==
    (ExecveRead /\ ReadLen >= 2) => \A k \in op.touched : k < ReadLen

\* the parser never leaves the buffer unless a byte it was not given is '!'
InsideBuffer ==
    (ExecveRead /\ ~op.r.ub) => \A k \in op.touched : k >= 0 /\ k < PbSize

(***************************************************************************)
(* Claims about the status model.                                          *)
(***************************************************************************)

StatusOpNames == {"setstatus", "set", "setpipestatus", "setwaitstatus", "ssetstatus"}

\* C1: after a status-recording operation that stored a pipeline with raw
\* statuses s_1..s_k, istrue() holds if and only if every s_i is 0.
C1_StatusTruth ==
    (op.name \in StatusOpNames /\ op.done) =>
        (istrue(statuses, pipelength) <=>
            \A i \in 1..Len(op.stored) : op.stored[i] = 0)

\* a one-element true status was stored over a longer pipeline whose stale
\* second cell is still non-zero
C1_Witness ==
    /\ op.name \in StatusOpNames
    /\ op.done
    /\ op.stored = <<0>>
    /\ StatAt(statuses, 1) # 0
    /\ istrue(statuses, pipelength)

\* C2: with -e set and outside a condition, every setstatus, setpipestatus
\* and setwaitstatus that records a non-zero raw status ends the shell, with
\* a non-zero exit code.
C2_ExitOnFailure ==
    (/\ op.name \in {"setstatus", "setpipestatus", "setwaitstatus"}
     /\ dashee /\ ~cond
     /\ \E s \in op.raw : s # 0)
    => (shell = "exited" /\ exitcode # 0)

====
